---- MODULE Spec2Model ----
(***************************************************************************)
(* A model of tgit / vekt: the repository lock, the content-addressed     *)
(* object store (ingest, pull, gc), push, and restore.                     *)
(***************************************************************************)
EXTENDS Integers, Sequences, FiniteSets, TLC

(***************************************************************************)
(* Bounds of the model.                                                    *)
(***************************************************************************)
NumProcs == 2
TickSecs == 150
MaxNow == 450
NumHashes == 2
ChunksPerBlob == 2
NumTensors == 2
NumDirs == 2
MaxInodes == 3
MaxEntries == 3
MaxShape == 2
MaxFill == 2
HeaderBytesPerEntry == 16
MaxCut == 2
MaxFileLen == 12
MaxHeaderLen == 6
MaxReruns == 1
NumOtherManifests == 1

(***************************************************************************)
(* Program constants.                                                      *)
(***************************************************************************)
STALE_LOCK_THRESHOLD_SECS == 300

Procs == 1..NumProcs
Hashes == 1..NumHashes
Tensors == 1..NumTensors
Inodes == 1..MaxInodes
Dirs == 1..NumDirs

VARIABLES
    now,        \* the host's clock, in seconds
    lockFile,   \* <repo>/.vekt/lock: existence, mtime, and the process that created it
    lpc,        \* per process: its position in LockFile::lock / as a guard holder
    lres,       \* per process: the result of its last LockFile::lock call
    lmod,       \* per process: the mtime read by fs::metadata
    lstart,     \* per process: the time its current LockFile::lock call began
    lfree,      \* per process: the lock file was absent or stale when the call began
    dir,        \* the store directory: file name -> inode (0: no such entry)
    ino,        \* inode -> the bytes of the file
    header,     \* the container being ingested: tensor -> hash of its data slice
    itpc,       \* per ingest task: its position in the closure of process()
    itfd,       \* per ingest task: the inode its open File refers to (0: none)
    itoff,      \* per ingest task: the write offset of its File
    iruns,      \* ingest: how many process calls on the container have returned
    ifirst,     \* ingest: the manifest and the store when the first call returned
    rblob,      \* the bucket: hash -> bytes of blobs/<hash> (<<>>: no such key)
    rman,       \* the bucket: manifests/<name>, present flag and tensor -> hash
    ppc,        \* the position of RemoteClient::pull
    pman,       \* pull: the manifest parsed from the bucket
    ptpc,       \* per pull task: its position in the async block
    ptfd,       \* per pull task: the inode its open File refers to (0: none)
    ptoff,      \* per pull task: the write offset of its File
    ptbytes,    \* per pull task: the bytes its stream delivers
    mfile,      \* per working directory: its *.tgit.json manifest and the hashes in it
    apc,        \* the position of the add command
    adir,       \* the working directory of the add command
    gpc,        \* the position of the gc command
    gdir,       \* the working directory of the gc command
    gref,       \* gc: referenced_hashes
    gtodo,      \* gc: the entries of read_dir(&store_path) not yet visited
    gbefore,    \* gc: the blobs the store held when the run began
    upc,        \* the position of RemoteClient::push
    umani,      \* push: the manifest being pushed, tensor -> hash
    utpc,       \* per push task: its position in the async block
    utfd,       \* per push task: the inode of the blob file it opened (0: none)
    cont,       \* round trip: the container C, its header entries and data region
    man,        \* round trip: the manifest tensors process returned, by name
    objects,    \* round trip: the blob directory, hash -> file bytes
    rpc,        \* round trip: the position of process / restore
    rloc,       \* restore: its locals in pass 2
    writer,     \* restore: what has been written through the BufWriter
    output,     \* restore: the output file on disk
    rres,       \* restore: its result
    stderr,     \* process: the names of the tensors it warned about and skipped
    filter,     \* restore: its filter argument, an Option<&str>
    ofile,      \* open: the file at the path, its size, declared header length and header bytes
    opc,        \* open: the position of SafetensorFile::open
    ores,       \* open: its outcome
    pruns,      \* pull: how many earlier pulls of the manifest were cancelled or failed
    others,     \* the other *.tgit.json files of the working directory: whether each opens and parses, and its hashes
    uhead,      \* push: what head_object answered for each tensor's blob
    fop,        \* fan-out: the operation that drives the stream, push or pull
    fn,         \* fan-out: number of tensors of the manifest
    ftasks,     \* fan-out: each blob task, queued in the stream, in flight or done
    ffailed,    \* fan-out: some collected result is an Err
    fpc,        \* fan-out: where the operation is
    iresults    \* ingest: the (name, hash) results of the finished tasks, in the order they finished

lockVars == <<now, lockFile, lpc, lres, lmod, lstart, lfree>>
fsVars == <<dir, ino>>
ingestVars == <<header, itpc, itfd, itoff, iruns, ifirst>>

remoteVars == <<rblob, rman>>
pullVars == <<ppc, pman, ptpc, ptfd, ptoff, ptbytes>>

cliVars == <<mfile, apc, adir, gpc, gdir, gref, gtodo, gbefore>>

pushVars == <<upc, umani, utpc, utfd>>

restoreVars == <<cont, man, objects, rpc, rloc, writer, output, rres, stderr,
                 filter>>

openVars == <<ofile, opc, ores>>

rerunVars == <<pruns>>

scanVars == <<others>>

headVars == <<uhead>>

fanVars == <<fop, fn, ftasks, ffailed, fpc>>

collectVars == <<iresults>>

vars == <<collectVars, fanVars, headVars, scanVars, rerunVars, openVars, lockVars, fsVars, ingestVars, remoteVars, pullVars, cliVars, pushVars,
          restoreVars>>
nonLockVars == <<collectVars, fanVars, headVars, scanVars, rerunVars, openVars, fsVars, ingestVars, remoteVars, pullVars, cliVars, pushVars,
                 restoreVars>>

(***************************************************************************)
(* Store files.  A blob with hash h lives under the name Blob(h); the      *)
(* temporary file of an insert is blob_path.with_extension("tmp").         *)
(***************************************************************************)
Blob(h) == <<"blob", h>>
TmpPath(h) == <<"tmp", h>>
StoreNames == {Blob(h) : h \in Hashes} \cup {TmpPath(h) : h \in Hashes}

\* The bytes of the data slice whose BLAKE3 digest is h, in write_all chunks.
Payload(h) == [i \in 1..ChunksPerBlob |-> h * 10 + i]

\* blake3::hash + hex::encode: collision-free on the modelled payloads;
\* any other byte string has a digest that names no modelled blob (0).
Blake3(bytes) ==
    IF \E h \in Hashes : Payload(h) = bytes
      THEN CHOOSE h \in Hashes : Payload(h) = bytes
      ELSE 0

FsEmpty ==
    /\ dir = [n \in StoreNames |-> 0]
    /\ ino = [i \in Inodes |-> <<>>]

NoRun == [manifest |-> <<>>, files |-> <<>>, arrived |-> <<>>]

IngestIdle ==
    /\ header = [t \in Tensors |-> 1]
    /\ itpc = [t \in Tensors |-> "idle"]
    /\ itfd = [t \in Tensors |-> 0]
    /\ itoff = [t \in Tensors |-> 0]
    /\ iruns = 0
    /\ ifirst = NoRun

\* VektManifest::CURRENT_VERSION
CURRENT_VERSION == "1.0"

\* The versions a manifest in the bucket may carry.
Versions == {"1.0", "2.0"}

NoManifest ==
    [present |-> FALSE, tensors |-> [t \in Tensors |-> 1],
     version |-> CURRENT_VERSION]

\* What manifests/<name> may hold: nothing, or a manifest of some version.
RemoteManifests(versions) ==
    {m \in [present : BOOLEAN, tensors : [Tensors -> Hashes],
            version : versions] : m.present \/ m = NoManifest}

RemoteEmpty ==
    /\ rblob = [h \in Hashes |-> <<>>]
    /\ rman = NoManifest

PullIdle ==
    /\ ppc = "idle"
    /\ pman = [t \in Tensors |-> 1]
    /\ ptpc = [t \in Tensors |-> "idle"]
    /\ ptfd = [t \in Tensors |-> 0]
    /\ ptoff = [t \in Tensors |-> 0]
    /\ ptbytes = [t \in Tensors |-> <<>>]

PushIdle ==
    /\ upc = "idle"
    /\ umani = [t \in Tensors |-> 1]
    /\ utpc = [t \in Tensors |-> "idle"]
    /\ utfd = [t \in Tensors |-> 0]

NoFile == [exists |-> FALSE, header |-> <<>>, data |-> <<>>]
\* filter: None
NoFilter == [some |-> FALSE, value |-> <<>>]

NoLocals ==
    [names |-> <<>>, written_hashes |-> {}, current_write_pos |-> 0,
     blobs_read |-> {}]

RestoreIdle ==
    /\ cont = [header |-> <<>>, data |-> <<>>]
    /\ man = <<>>
    /\ objects = <<>>
    /\ rpc = "idle"
    /\ rloc = NoLocals
    /\ writer = NoFile
    /\ output = NoFile
    /\ rres = "none"
    /\ stderr = {}
    /\ filter = NoFilter

NoResults ==
    /\ iresults = <<>>

FanIdle ==
    /\ fop = "none"
    /\ fn = 0
    /\ ftasks = <<>>
    /\ ffailed = FALSE
    /\ fpc = "idle"

NoHeadAnswers ==
    /\ uhead = [t \in Tensors |-> "none"]

\* No such file in the working directory.
AbsentManifest == [state |-> "absent", hashes |-> {}]

NoOtherManifests ==
    /\ others = [i \in 1..NumOtherManifests |-> AbsentManifest]

NoRerun ==
    /\ pruns = 0

\* No file at the path given to open.
NoContainerFile ==
    [present |-> FALSE, len |-> 0, L |-> 0, utf8 |-> TRUE, json |-> TRUE]

OpenIdle ==
    /\ ofile = NoContainerFile
    /\ opc = "idle"
    /\ ores = "none"

NoManifestFile == [present |-> FALSE, hashes |-> {}]

CliIdle ==
    /\ mfile = [d \in Dirs |-> NoManifestFile]
    /\ apc = "idle"
    /\ adir = 1
    /\ gpc = "idle"
    /\ gdir = 1
    /\ gref = {}
    /\ gtodo = {}
    /\ gbefore = {}

(***************************************************************************)
(* The repository lock (vekt_core/src/utils.rs).                           *)
(***************************************************************************)
\* The value of `modified` before fs::metadata has been read.
NotRead == -1

NoLockFile == [exists |-> FALSE, mtime |-> 0, creator |-> 0]

LockInit ==
    /\ now = 0
    /\ lockFile = NoLockFile
    /\ lpc = [p \in Procs |-> "idle"]
    /\ lres = [p \in Procs |-> "none"]
    /\ lmod = [p \in Procs |-> NotRead]
    /\ lstart = [p \in Procs |-> 0]
    /\ lfree = [p \in Procs |-> FALSE]

\* A threshold test that takes no lock file for stale.
NeverStale(age_secs) == FALSE

\* age_secs > STALE_LOCK_THRESHOLD_SECS
IsStale(age_secs) == age_secs > STALE_LOCK_THRESHOLD_SECS

\* The clock advances.
Tick ==
    /\ now + TickSecs <= MaxNow
    /\ now' = now + TickSecs
    /\ UNCHANGED <<lockFile, lpc, lres, lmod, lstart, lfree>>
    /\ UNCHANGED nonLockVars

\* A process enters LockFile::lock().
LockBegin(p) ==
    /\ lpc[p] = "idle"
    /\ lpc' = [lpc EXCEPT ![p] = "exists"]
    /\ lres' = [lres EXCEPT ![p] = "none"]
    /\ lstart' = [lstart EXCEPT ![p] = now]
    /\ lfree' = [lfree EXCEPT ![p] =
                    \/ ~lockFile.exists
                    \/ IsStale(now - lockFile.mtime)]
    /\ lmod' = [lmod EXCEPT ![p] = NotRead]
    /\ UNCHANGED <<now, lockFile>>
    /\ UNCHANGED nonLockVars

\* path.exists()
LockCheckExists(p) ==
    /\ lpc[p] = "exists"
    /\ lpc' = [lpc EXCEPT ![p] = IF lockFile.exists THEN "metadata" ELSE "create"]
    /\ UNCHANGED <<now, lockFile, lres, lmod, lstart, lfree>>
    /\ UNCHANGED nonLockVars

\* fs::metadata(&path) and metadata.modified(); an Err leaves the if-let chain
LockMetadata(p) ==
    /\ lpc[p] = "metadata"
    /\ IF lockFile.exists
         THEN /\ lmod' = [lmod EXCEPT ![p] = lockFile.mtime]
              /\ lpc' = [lpc EXCEPT ![p] = "age"]
         ELSE /\ lmod' = lmod
              /\ lpc' = [lpc EXCEPT ![p] = "create"]
    /\ UNCHANGED <<now, lockFile, lres, lstart, lfree>>
    /\ UNCHANGED nonLockVars

\* SystemTime::now().duration_since(modified), then the threshold test
LockCheckAge(p) ==
    /\ lpc[p] = "age"
    /\ IF now < lmod[p]
         THEN /\ lpc' = [lpc EXCEPT ![p] = "create"]
              /\ lres' = lres
         ELSE IF IsStale(now - lmod[p])
                THEN /\ lpc' = [lpc EXCEPT ![p] = "remove"]
                     /\ lres' = lres
                ELSE /\ lpc' = [lpc EXCEPT ![p] = "failed"]
                     /\ lres' = [lres EXCEPT ![p] = "LockExists"]
    /\ UNCHANGED <<now, lockFile, lmod, lstart, lfree>>
    /\ UNCHANGED nonLockVars

\* fs::remove_file(&path) of the stale lock; an error is returned as Io
LockRemoveStale(p) ==
    /\ lpc[p] = "remove"
    /\ IF lockFile.exists
         THEN /\ lockFile' = NoLockFile
              /\ lpc' = [lpc EXCEPT ![p] = "create"]
              /\ lres' = lres
         ELSE /\ lockFile' = lockFile
              /\ lpc' = [lpc EXCEPT ![p] = "failed"]
              /\ lres' = [lres EXCEPT ![p] = "Io"]
    /\ UNCHANGED <<now, lmod, lstart, lfree>>
    /\ UNCHANGED nonLockVars

\* OpenOptions::new().write(true).create_new(true).open(&path)
LockCreateNew(p) ==
    /\ lpc[p] = "create"
    /\ IF lockFile.exists
         THEN /\ lockFile' = lockFile
              /\ lpc' = [lpc EXCEPT ![p] = "failed"]
              /\ lres' = [lres EXCEPT ![p] = "LockExists"]
         ELSE /\ lockFile' = [exists |-> TRUE, mtime |-> now, creator |-> p]
              /\ lpc' = [lpc EXCEPT ![p] = "write"]
              /\ lres' = lres
    /\ UNCHANGED <<now, lmod, lstart, lfree>>
    /\ UNCHANGED nonLockVars

\* fs::write(&path, lock_content): creates the file if it is gone, truncates,
\* writes; an error is returned as Io and nothing removes the file.
LockWriteContent(p) ==
    /\ lpc[p] = "write"
    /\ \E ok \in BOOLEAN :
         IF ok
         THEN /\ lockFile' = [exists |-> TRUE, mtime |-> now,
                              creator |-> IF lockFile.exists
                                            THEN lockFile.creator ELSE p]
              /\ lpc' = [lpc EXCEPT ![p] = "held"]
              /\ lres' = [lres EXCEPT ![p] = "ok"]
         ELSE /\ lockFile' = lockFile
              /\ lpc' = [lpc EXCEPT ![p] = "failed"]
              /\ lres' = [lres EXCEPT ![p] = "Io: Failed to write lock file"]
    /\ UNCHANGED <<now, lmod, lstart, lfree>>
    /\ UNCHANGED nonLockVars

\* Drop for LockFile: let _ = fs::remove_file(&self.path)
LockDrop(p) ==
    /\ lpc[p] = "held"
    /\ lockFile' = NoLockFile
    /\ lpc' = [lpc EXCEPT ![p] = "idle"]
    /\ UNCHANGED <<now, lres, lmod, lstart, lfree>>
    /\ UNCHANGED nonLockVars

\* The caller of a failed lock() returns the error; the process ends.
LockFailedExit(p) ==
    /\ lpc[p] = "failed"
    /\ lpc' = [lpc EXCEPT ![p] = "idle"]
    /\ UNCHANGED <<now, lockFile, lres, lmod, lstart, lfree>>
    /\ UNCHANGED nonLockVars

\* A holder is killed: no destructor runs, the lock file stays behind.
LockHolderCrash(p) ==
    /\ lpc[p] = "held"
    /\ lpc' = [lpc EXCEPT ![p] = "idle"]
    /\ UNCHANGED <<now, lockFile, lres, lmod, lstart, lfree>>
    /\ UNCHANGED nonLockVars

LockNext ==
    \/ Tick
    \/ \E p \in Procs : LockBegin(p)
    \/ \E p \in Procs : LockCheckExists(p)
    \/ \E p \in Procs : LockMetadata(p)
    \/ \E p \in Procs : LockCheckAge(p)
    \/ \E p \in Procs : LockRemoveStale(p)
    \/ \E p \in Procs : LockCreateNew(p)
    \/ \E p \in Procs : LockWriteContent(p)
    \/ \E p \in Procs : LockDrop(p)
    \/ \E p \in Procs : LockFailedExit(p)
    \/ \E p \in Procs : LockHolderCrash(p)

InitLock ==
    /\ LockInit /\ NoResults /\ FanIdle /\ NoHeadAnswers /\ NoOtherManifests /\ NoRerun
    /\ OpenIdle /\ FsEmpty /\ IngestIdle /\ RemoteEmpty /\ PullIdle /\ CliIdle
    /\ PushIdle /\ RestoreIdle

SpecLock == InitLock /\ [][LockNext]_vars

(***************************************************************************)
(* Claims about the repository lock.                                       *)
(***************************************************************************)
Holders == {p \in Procs : lpc[p] = "held"}

\* C1: at most one process at a time holds a successfully acquired,
\* not-yet-dropped repository lock, across every interleaving of lock()
\* calls and guard drops, stale-lock removal included.
C1_MutualExclusion == Cardinality(Holders) <= 1

AttemptDone(p) == lpc[p] \in {"held", "failed"}

Within(p, q) ==
    /\ lstart[p] - lstart[q] <= STALE_LOCK_THRESHOLD_SECS
    /\ lstart[q] - lstart[p] <= STALE_LOCK_THRESHOLD_SECS

\* C2: two attempts to acquire the lock that begin on a lock nobody freshly
\* holds, within 300 s of each other, and have both returned within 300 s
\* (no guard dropped yet, no error writing the lock file) yield exactly one
\* success and one LockHeld failure.
C2_OneSuccessOneLockHeld ==
    \A p, q \in Procs :
        (/\ p # q
         /\ AttemptDone(p) /\ AttemptDone(q)
         /\ lres[p] # "Io: Failed to write lock file"
         /\ lres[q] # "Io: Failed to write lock file"
         /\ lfree[p] /\ lfree[q]
         /\ Within(p, q)
         /\ now - lstart[p] <= STALE_LOCK_THRESHOLD_SECS
         /\ now - lstart[q] <= STALE_LOCK_THRESHOLD_SECS)
        => \/ lres[p] = "ok" /\ lres[q] = "LockExists"
           \/ lres[q] = "ok" /\ lres[p] = "LockExists"

\* Calls of lock() that do not overlap: a process enters lock() only while
\* no other process is inside lock() or holds a guard.  A holder may still
\* be killed and leave its lock file.
SeqLockBegin(p) ==
    /\ \A q \in Procs : lpc[q] = "idle"
    /\ LockBegin(p)

LockSeqNext ==
    \/ Tick
    \/ \E p \in Procs : SeqLockBegin(p)
    \/ \E p \in Procs : LockCheckExists(p)
    \/ \E p \in Procs : LockMetadata(p)
    \/ \E p \in Procs : LockCheckAge(p)
    \/ \E p \in Procs : LockRemoveStale(p)
    \/ \E p \in Procs : LockCreateNew(p)
    \/ \E p \in Procs : LockWriteContent(p)
    \/ \E p \in Procs : LockDrop(p)
    \/ \E p \in Procs : LockFailedExit(p)
    \/ \E p \in Procs : LockHolderCrash(p)

SpecLockSeq == InitLock /\ [][LockSeqNext]_vars

C16_LockRemovedOnExit ==
    [][\A p \in Procs :
          /\ LockDrop(p) => ~lockFile'.exists
          /\ (lpc[p] = "write" /\ lpc'[p] = "failed") => ~lockFile'.exists]_vars

\* C34: the drop of a guard removes no lock file that another acquirer
\* created: when a holder's guard is dropped, the lock file, if there is one,
\* is the one that holder created.
C34_DropRemovesOwnLock ==
    [][\A p \in Procs :
          (LockDrop(p) /\ lockFile.exists) => lockFile.creator = p]_vars

(***************************************************************************)
(* The store's file system: directory entries, inodes, open files.         *)
(***************************************************************************)
Exists(name) == dir[name] # 0

IngestFds(tasks) == {itfd[t] : t \in tasks} \ {0}
PullFds(tasks) == {ptfd[t] : t \in tasks} \ {0}
PushFds == {utfd[t] : t \in Tensors} \ {0}
OpenFds == IngestFds(Tensors) \cup PullFds(Tensors) \cup PushFds

LinkedInodes == {dir[n] : n \in StoreNames} \ {0}

FreeInodes == Inodes \ (LinkedInodes \cup OpenFds)

\* The inode File::create(name) opens: the existing file, or a new one.
CreatedInode(name) ==
    IF Exists(name) THEN dir[name]
    ELSE CHOOSE i \in FreeInodes : \A j \in FreeInodes : i <= j

CanCreate(name) == Exists(name) \/ FreeInodes # {}

\* write(2) of one byte chunk b at offset off (a gap reads as zeros)
WriteAt(bytes, off, b) ==
    [i \in 1..(IF Len(bytes) > off + 1 THEN Len(bytes) ELSE off + 1) |->
        IF i = off + 1 THEN b
        ELSE IF i <= Len(bytes) THEN bytes[i]
        ELSE 0]

\* Inodes that lose their last reference are freed.
Reaped(inodes, d, fds) ==
    [i \in Inodes |->
        IF i \in ({d[n] : n \in StoreNames} \cup fds) THEN inodes[i] ELSE <<>>]

(***************************************************************************)
(* Ingest: SafetensorFile::process(save_blobs = true), one rayon task per  *)
(* header entry (tgit_core/src/lib.rs).                                    *)
(***************************************************************************)
IngestInit ==
    /\ header \in [Tensors -> Hashes]
    /\ itpc = [t \in Tensors |-> "check"]
    /\ itfd = [t \in Tensors |-> 0]
    /\ itoff = [t \in Tensors |-> 0]
    /\ iruns = 0
    /\ ifirst = NoRun

\* A check that never finds the blob.
BlobNeverPresent(h) == FALSE

\* blob_path.exists()
BlobPresent(h) == Exists(Blob(h))

\* Some((tensor_name.clone(), ManifestTensor { .. hash: hash_hex })), what a
\* task hands to collect() when it ends.
TaskResult(t) == <<t, Blake3(Payload(header[t]))>>

\* if save_blobs { if !blob_path.exists() { ... } }
IngestCheckExists(t) ==
    /\ itpc[t] = "check"
    /\ itpc' = [itpc EXCEPT ![t] =
                  IF BlobPresent(header[t]) THEN "done" ELSE "create"]
    /\ iresults' = IF BlobPresent(header[t])
                     THEN Append(iresults, TaskResult(t)) ELSE iresults
    /\ UNCHANGED <<fanVars, headVars, scanVars, rerunVars, openVars, header, iruns, ifirst, itfd, itoff, fsVars, lockVars, remoteVars, pushVars, restoreVars, pullVars, cliVars>>

\* File::create(&tmp_path): O_CREAT | O_TRUNC
IngestCreateTmp(t) ==
    /\ itpc[t] = "create"
    /\ CanCreate(TmpPath(header[t]))
    /\ LET i == CreatedInode(TmpPath(header[t])) IN
         /\ dir' = [dir EXCEPT ![TmpPath(header[t])] = i]
         /\ ino' = [ino EXCEPT ![i] = <<>>]
         /\ itfd' = [itfd EXCEPT ![t] = i]
    /\ itoff' = [itoff EXCEPT ![t] = 0]
    /\ itpc' = [itpc EXCEPT ![t] = "write"]
    /\ UNCHANGED <<collectVars, fanVars, headVars, scanVars, rerunVars, openVars, header, iruns, ifirst, lockVars, remoteVars, pushVars, restoreVars, pullVars, cliVars>>

\* f.write_all(data_slice).unwrap(), one chunk per step
IngestWriteChunk(t) ==
    /\ itpc[t] = "write"
    /\ ino' = [ino EXCEPT ![itfd[t]] =
                 WriteAt(@, itoff[t], Payload(header[t])[itoff[t] + 1])]
    /\ itoff' = [itoff EXCEPT ![t] = @ + 1]
    /\ itpc' = [itpc EXCEPT ![t] =
                  IF itoff[t] + 1 = ChunksPerBlob THEN "rename" ELSE "write"]
    /\ UNCHANGED <<collectVars, fanVars, headVars, scanVars, rerunVars, openVars, header, iruns, ifirst, itfd, dir, lockVars, remoteVars, pushVars, restoreVars, pullVars, cliVars>>

\* fs::rename(tmp_path, blob_path).unwrap(); the File is closed after it
IngestRename(t) ==
    /\ itpc[t] = "rename"
    /\ LET h == header[t]
           fds == IngestFds(Tensors \ {t}) \cup PullFds(Tensors) \cup PushFds
       IN IF Exists(TmpPath(h))
            THEN /\ dir' = [dir EXCEPT ![Blob(h)] = dir[TmpPath(h)],
                                       ![TmpPath(h)] = 0]
                 /\ ino' = Reaped(ino, dir', fds)
                 /\ itpc' = [itpc EXCEPT ![t] = "done"]
                 /\ iresults' = Append(iresults, TaskResult(t))
            ELSE /\ dir' = dir
                 /\ ino' = Reaped(ino, dir, fds)
                 /\ itpc' = [itpc EXCEPT ![t] = "panicked"]
                 /\ UNCHANGED iresults
    /\ itfd' = [itfd EXCEPT ![t] = 0]
    /\ UNCHANGED <<fanVars, headVars, scanVars, rerunVars, openVars, header, iruns, ifirst, itoff, lockVars, remoteVars, pushVars, restoreVars, pullVars, cliVars>>

IngestNext ==
    \/ \E t \in Tensors : IngestCheckExists(t)
    \/ \E t \in Tensors : IngestCreateTmp(t)
    \/ \E t \in Tensors : IngestWriteChunk(t)
    \/ \E t \in Tensors : IngestRename(t)

\* The store before the ingest: blobs of earlier ingests, complete.
StoreOfBlobs(present) ==
    /\ \E f \in [present -> Inodes] :
         /\ \A a, b \in present : a # b => f[a] # f[b]
         /\ \A a \in present : \A i \in Inodes :
                (i < f[a]) => \E b \in present : f[b] = i
         /\ \A a, b \in present : a < b => f[a] < f[b]
         /\ dir = [n \in StoreNames |->
                     IF n[1] = "blob" /\ n[2] \in present THEN f[n[2]] ELSE 0]
         /\ ino = [i \in Inodes |->
                     IF \E a \in present : f[a] = i
                       THEN Payload(CHOOSE a \in present : f[a] = i)
                       ELSE <<>>]

InitIngest ==
    /\ LockInit
    /\ NoResults
    /\ FanIdle
    /\ NoHeadAnswers
    /\ NoOtherManifests
    /\ NoRerun
    /\ OpenIdle
    /\ \E present \in SUBSET Hashes :
         /\ Cardinality(present) < NumHashes
         /\ StoreOfBlobs(present)
    /\ IngestInit
    /\ RemoteEmpty
    /\ PullIdle
    /\ CliIdle
    /\ PushIdle
    /\ RestoreIdle

SpecIngest == InitIngest /\ [][IngestNext]_vars

(***************************************************************************)
(* Claims about ingest.                                                    *)
(***************************************************************************)
\* C3: during ingest no reader ever observes a partially written or
\* zero-length blob under its final hash name, and every insert, two inserts
\* of the same hash included, completes without failure.
C3_AtomicBlobInsert ==
    /\ \A h \in Hashes : Exists(Blob(h)) => ino[dir[Blob(h)]] = Payload(h)
    /\ \A t \in Tensors : itpc[t] # "panicked"

\* C31: once a blob file exists under a hash, no step of an ingest or of a
\* pull removes the file or changes its bytes.
C31_StoredBlobFrozen ==
    [][\A h \in Hashes :
          Exists(Blob(h)) =>
              /\ dir'[Blob(h)] # 0
              /\ ino'[dir'[Blob(h)]] = ino[dir[Blob(h)]]]_vars

(***************************************************************************)
(* process applied twice to one container.                                 *)
(***************************************************************************)
\* The manifest process returns: for each entry the hash of its data slice.
ProcessManifest(hdr) == [t \in Tensors |-> Blake3(Payload(hdr[t]))]

\* A collection that keeps the results in the order the tasks ended.
CollectByArrival(results) == [i \in 1..Len(results) |-> results[i][2]]

\* .collect() into HashMap<String, ManifestTensor>: each result is entered
\* under its tensor name, whatever the order the tasks ended in.
Collect(results) ==
    [t \in {results[i][1] : i \in 1..Len(results)} |->
        LET i == CHOOSE j \in 1..Len(results) : results[j][1] = t
        IN results[i][2]]

\* The blob files of the store: for each hash present, its inode and bytes.
StoreFiles ==
    [h \in {g \in Hashes : Exists(Blob(g))} |->
        <<dir[Blob(h)], ino[dir[Blob(h)]]>>]

FileBytes(files) == [h \in DOMAIN files |-> files[h][2]]

\* .collect() and the return of process; after the first return the caller
\* calls process on the same container again.
ProcessReturn ==
    /\ \A t \in Tensors : itpc[t] = "done"
    /\ iruns < 2
    /\ iruns' = iruns + 1
    /\ IF iruns = 0
       THEN /\ ifirst' = [manifest |-> Collect(iresults),
                          files |-> StoreFiles,
                          arrived |-> [i \in 1..Len(iresults) |->
                                          iresults[i][1]]]
            /\ itpc' = [t \in Tensors |-> "check"]
            /\ iresults' = <<>>
       ELSE /\ itpc' = [t \in Tensors |-> "returned"]
            /\ UNCHANGED <<ifirst, iresults>>
    /\ UNCHANGED <<fanVars, headVars, scanVars, rerunVars, openVars, header, itfd, itoff, fsVars, lockVars, remoteVars, pushVars, restoreVars, pullVars, cliVars>>

ReingestNext ==
    \/ \E t \in Tensors : IngestCheckExists(t)
    \/ \E t \in Tensors : IngestCreateTmp(t)
    \/ \E t \in Tensors : IngestWriteChunk(t)
    \/ \E t \in Tensors : IngestRename(t)
    \/ ProcessReturn

SpecReingest == InitIngest /\ [][ReingestNext]_vars

C32_ManifestIgnoresSchedule ==
    iruns >= 1 =>
        ifirst.manifest = [t \in Tensors |-> Blake3(Payload(header[t]))]

\* process returned after its tasks, hashing different slices, ended in the
\* reverse of the header's order.
C32_Witness ==
    /\ iruns >= 1
    /\ header[1] # header[2]
    /\ ifirst.arrived = <<2, 1>>

(***************************************************************************)
(* Pull: RemoteClient::pull (vekt_core/src/remote.rs).                     *)
(***************************************************************************)
\* A full-length object whose bytes are not those of any modelled payload.
Garbage == [i \in 1..ChunksPerBlob |-> 99]

PullInit ==
    /\ ppc = "start"
    /\ pman = [t \in Tensors |-> 1]
    /\ ptpc = [t \in Tensors |-> "idle"]
    /\ ptfd = [t \in Tensors |-> 0]
    /\ ptoff = [t \in Tensors |-> 0]
    /\ ptbytes = [t \in Tensors |-> <<>>]

\* self.bucket.get_object(&manifest_path) and serde_json::from_slice
PullGetManifest ==
    /\ ppc = "start"
    /\ IF rman.present
         THEN /\ pman' = rman.tensors
              /\ ppc' = "dispatch"
         ELSE /\ pman' = pman
              /\ ppc' = "err"
    /\ UNCHANGED <<ptpc, ptfd, ptoff, ptbytes>>
    /\ UNCHANGED <<collectVars, fanVars, headVars, scanVars, rerunVars, openVars, restoreVars, lockVars, fsVars, ingestVars, remoteVars, pushVars, cliVars>>

\* buffer_unordered(10) polls every task up to its first await: each task
\* runs blob_path.exists() and either returns Ok(false) or issues the get.
PullDispatch ==
    /\ ppc = "dispatch"
    /\ ptpc' = [t \in Tensors |->
                  IF Exists(Blob(pman[t])) THEN "skipped" ELSE "get"]
    /\ ppc' = "tasks"
    /\ UNCHANGED <<pman, ptfd, ptoff, ptbytes>>
    /\ UNCHANGED <<collectVars, fanVars, headVars, scanVars, rerunVars, openVars, restoreVars, lockVars, fsVars, ingestVars, remoteVars, pushVars, cliVars>>

\* self.bucket.get_object_stream(&remote_path).await
PullGetStream(t) ==
    /\ ppc = "tasks"
    /\ ptpc[t] = "get"
    /\ IF rblob[pman[t]] = <<>>
         THEN /\ ptpc' = [ptpc EXCEPT ![t] = "failed"]
              /\ ptbytes' = ptbytes
         ELSE /\ ptpc' = [ptpc EXCEPT ![t] = "create"]
              /\ ptbytes' = [ptbytes EXCEPT ![t] = rblob[pman[t]]]
    /\ UNCHANGED <<ppc, pman, ptfd, ptoff>>
    /\ UNCHANGED <<collectVars, fanVars, headVars, scanVars, rerunVars, openVars, restoreVars, lockVars, fsVars, ingestVars, remoteVars, pushVars, cliVars>>

\* File::create(&tmp_path).await
PullCreateTmp(t) ==
    /\ ppc = "tasks"
    /\ ptpc[t] = "create"
    /\ CanCreate(TmpPath(pman[t]))
    /\ LET i == CreatedInode(TmpPath(pman[t])) IN
         /\ dir' = [dir EXCEPT ![TmpPath(pman[t])] = i]
         /\ ino' = [ino EXCEPT ![i] = <<>>]
         /\ ptfd' = [ptfd EXCEPT ![t] = i]
    /\ ptoff' = [ptoff EXCEPT ![t] = 0]
    /\ ptpc' = [ptpc EXCEPT ![t] = "copy"]
    /\ UNCHANGED <<ppc, pman, ptbytes>>
    /\ UNCHANGED <<collectVars, fanVars, headVars, scanVars, rerunVars, openVars, restoreVars, lockVars, ingestVars, remoteVars, pushVars, cliVars>>

\* tokio::io::copy(&mut stream, &mut file).await, one chunk per step
PullCopyChunk(t) ==
    /\ ppc = "tasks"
    /\ ptpc[t] = "copy"
    /\ ino' = [ino EXCEPT ![ptfd[t]] =
                 WriteAt(@, ptoff[t], ptbytes[t][ptoff[t] + 1])]
    /\ ptoff' = [ptoff EXCEPT ![t] = @ + 1]
    /\ ptpc' = [ptpc EXCEPT ![t] =
                  IF ptoff[t] + 1 = Len(ptbytes[t]) THEN "sync" ELSE "copy"]
    /\ UNCHANGED <<ppc, pman, ptfd, ptbytes, dir>>
    /\ UNCHANGED <<collectVars, fanVars, headVars, scanVars, rerunVars, openVars, restoreVars, lockVars, ingestVars, remoteVars, pushVars, cliVars>>

\* file.sync_all().await; drop(file)
PullSyncAndClose(t) ==
    /\ ppc = "tasks"
    /\ ptpc[t] = "sync"
    /\ ptfd' = [ptfd EXCEPT ![t] = 0]
    /\ ino' = Reaped(ino, dir, IngestFds(Tensors) \cup PullFds(Tensors \ {t}) \cup PushFds)
    /\ ptpc' = [ptpc EXCEPT ![t] = "rename"]
    /\ UNCHANGED <<ppc, pman, ptoff, ptbytes, dir>>
    /\ UNCHANGED <<collectVars, fanVars, headVars, scanVars, rerunVars, openVars, restoreVars, lockVars, ingestVars, remoteVars, pushVars, cliVars>>

\* tokio::fs::rename(&tmp_path, &blob_path).await
PullRename(t) ==
    /\ ppc = "tasks"
    /\ ptpc[t] = "rename"
    /\ LET h == pman[t] IN
         IF Exists(TmpPath(h))
           THEN /\ dir' = [dir EXCEPT ![Blob(h)] = dir[TmpPath(h)],
                                      ![TmpPath(h)] = 0]
                /\ ino' = Reaped(ino, dir', OpenFds)
                /\ ptpc' = [ptpc EXCEPT ![t] = "downloaded"]
           ELSE /\ UNCHANGED <<dir, ino>>
                /\ ptpc' = [ptpc EXCEPT ![t] = "failed"]
    /\ UNCHANGED <<ppc, pman, ptfd, ptoff, ptbytes>>
    /\ UNCHANGED <<collectVars, fanVars, headVars, scanVars, rerunVars, openVars, restoreVars, lockVars, ingestVars, remoteVars, pushVars, cliVars>>

PullTaskFinished(t) == ptpc[t] \in {"skipped", "downloaded", "failed"}

\* tasks.collect().await, then `res?` over the results
PullCollect ==
    /\ ppc = "tasks"
    /\ \A t \in Tensors : PullTaskFinished(t)
    /\ ppc' = IF \E t \in Tensors : ptpc[t] = "failed" THEN "err" ELSE "ok"
    /\ UNCHANGED <<pman, ptpc, ptfd, ptoff, ptbytes>>
    /\ UNCHANGED <<collectVars, fanVars, headVars, scanVars, rerunVars, openVars, restoreVars, lockVars, fsVars, ingestVars, remoteVars, pushVars, cliVars>>

\* The pull future is dropped at a suspension point (the process is
\* interrupted): unfinished tasks stop where they are, their files close.
PullCancel ==
    /\ ppc \in {"dispatch", "tasks"}
    /\ ppc' = "cancelled"
    /\ ptpc' = [t \in Tensors |->
                  IF PullTaskFinished(t) THEN ptpc[t] ELSE "cancelled"]
    /\ ptfd' = [t \in Tensors |-> 0]
    /\ ino' = Reaped(ino, dir, IngestFds(Tensors))
    /\ UNCHANGED <<pman, ptoff, ptbytes, dir>>
    /\ UNCHANGED <<collectVars, fanVars, headVars, scanVars, rerunVars, openVars, restoreVars, lockVars, ingestVars, remoteVars, pushVars, cliVars>>

PullNext ==
    \/ PullGetManifest
    \/ PullDispatch
    \/ \E t \in Tensors : PullGetStream(t)
    \/ \E t \in Tensors : PullCreateTmp(t)
    \/ \E t \in Tensors : PullCopyChunk(t)
    \/ \E t \in Tensors : PullSyncAndClose(t)
    \/ \E t \in Tensors : PullRename(t)
    \/ PullCollect
    \/ PullCancel

\* The bucket before a pull: a manifest, and under blobs/<hash> nothing,
\* the blob, or other bytes.
InitPull ==
    /\ LockInit
    /\ NoResults
    /\ FanIdle
    /\ NoHeadAnswers
    /\ NoOtherManifests
    /\ NoRerun
    /\ OpenIdle
    /\ IngestIdle
    /\ \E present \in SUBSET Hashes :
         /\ Cardinality(present) < NumHashes
         /\ StoreOfBlobs(present)
    /\ rman \in RemoteManifests(Versions)
    /\ rblob \in [Hashes -> {<<>>, Garbage} \cup {Payload(h) : h \in Hashes}]
    /\ \A h \in Hashes : rblob[h] \in {<<>>, Garbage, Payload(h)}
    /\ PullInit
    /\ CliIdle
    /\ PushIdle
    /\ RestoreIdle

SpecPull == InitPull /\ [][PullNext]_vars

(***************************************************************************)
(* Claims about pull.                                                      *)
(***************************************************************************)
\* The bytes of a finished blob file: those ingest wrote, or the whole
\* object the bucket serves under blobs/<hash>.
CompleteBlob(h, bytes) == bytes = Payload(h) \/ (bytes # <<>> /\ bytes = rblob[h])

\* C4: interrupting pull at any suspension point, for any manifest (several
\* tensors may share a hash), leaves only completely written blob files
\* under hash names in the local store.
C4_PullAtomicity ==
    ppc = "cancelled" =>
        \A h \in Hashes : Exists(Blob(h)) => CompleteBlob(h, ino[dir[Blob(h)]])

\* C8: after a completed pull every blob file of the local store has
\* contents whose BLAKE3 digest equals its file name, whatever bytes the
\* remote returned for a blob key.
C8_HashIntegrity ==
    ppc = "ok" =>
        \A h \in Hashes : Exists(Blob(h)) => Blake3(ino[dir[Blob(h)]]) = h

(***************************************************************************)
(* A pull after a pull that was cancelled or failed.                       *)
(***************************************************************************)
\* pull is called again for the same manifest, in a new process or by the
\* caller: nothing is left of the earlier call but the files in the store.
PullAgain ==
    /\ ppc \in {"cancelled", "err"}
    /\ pruns < MaxReruns
    /\ pruns' = pruns + 1
    /\ ppc' = "start"
    /\ pman' = [t \in Tensors |-> 1]
    /\ ptpc' = [t \in Tensors |-> "idle"]
    /\ ptfd' = [t \in Tensors |-> 0]
    /\ ptoff' = [t \in Tensors |-> 0]
    /\ ptbytes' = [t \in Tensors |-> <<>>]
    /\ UNCHANGED <<collectVars, fanVars, headVars, scanVars, openVars, restoreVars, lockVars, fsVars, ingestVars, remoteVars, pushVars, cliVars>>

PullAgainNext == PullNext \/ PullAgain

SpecPullAgain == InitPull /\ [][PullAgainNext]_vars

\* C24: when a pull that follows a cancelled or failed pull of the same
\* manifest has returned Ok, every blob the manifest references is in the
\* local store, completely written.
C24_PullAfterCancel ==
    (pruns > 0 /\ ppc = "ok") =>
        \A t \in Tensors :
            /\ Exists(Blob(pman[t]))
            /\ CompleteBlob(pman[t], ino[dir[Blob(pman[t])]])

(***************************************************************************)
(* The add and gc commands (tgit_cli/src/main.rs).                         *)
(***************************************************************************)
AddProc == 1
GcProc == 2

ManifestHashes(hdr) == {hdr[t] : t \in Tensors}

\* Commands::Add: let _lock = LockFile::lock()?, tgit_core's create_new lock
AddLock(d) ==
    /\ apc = "idle"
    /\ IF lockFile.exists
         THEN UNCHANGED <<lockFile, apc, adir>>
         ELSE /\ lockFile' = [exists |-> TRUE, mtime |-> now, creator |-> AddProc]
              /\ apc' = "open"
              /\ adir' = d
    /\ UNCHANGED <<now, lpc, lres, lmod, lstart, lfree>>
    /\ UNCHANGED <<mfile, gpc, gdir, gref, gtodo, gbefore>>
    /\ UNCHANGED <<collectVars, fanVars, headVars, scanVars, rerunVars, openVars, fsVars, ingestVars, remoteVars, pushVars, restoreVars, pullVars>>

\* SafetensorFile::open(path_str)? and the dispatch of process(true)
AddProcessStart ==
    /\ apc = "open"
    /\ header' \in [Tensors -> Hashes]
    /\ itpc' = [t \in Tensors |-> "check"]
    /\ itfd' = [t \in Tensors |-> 0]
    /\ itoff' = [t \in Tensors |-> 0]
    /\ apc' = "process"
    /\ UNCHANGED <<iruns, ifirst>>
    /\ UNCHANGED <<mfile, adir, gpc, gdir, gref, gtodo, gbefore>>
    /\ UNCHANGED <<collectVars, fanVars, headVars, scanVars, rerunVars, openVars, restoreVars, lockVars, fsVars, remoteVars, pushVars, pullVars>>

\* process(true) returns once every task has ended; a panic unwinds main
AddProcessReturn ==
    /\ apc = "process"
    /\ \A t \in Tensors : itpc[t] \in {"done", "panicked"}
    /\ apc' = IF \E t \in Tensors : itpc[t] = "panicked" THEN "drop" ELSE "manifest"
    /\ itpc' = [t \in Tensors |-> "idle"]
    /\ itoff' = [t \in Tensors |-> 0]
    /\ header' = IF \E t \in Tensors : itpc[t] = "panicked"
                   THEN [t \in Tensors |-> 1] ELSE header
    /\ iresults' = <<>>
    /\ UNCHANGED <<itfd, iruns, ifirst>>
    /\ UNCHANGED <<mfile, adir, gpc, gdir, gref, gtodo, gbefore>>
    /\ UNCHANGED <<fanVars, headVars, scanVars, rerunVars, openVars, restoreVars, lockVars, fsVars, remoteVars, pushVars, pullVars>>

\* File::create(&output_path)?; output_file.write_all(manifest_json)
AddWriteManifest ==
    /\ apc = "manifest"
    /\ mfile' = [mfile EXCEPT ![adir] =
                   [present |-> TRUE, hashes |-> ManifestHashes(header)]]
    /\ apc' = "drop"
    /\ header' = [t \in Tensors |-> 1]
    /\ UNCHANGED <<itpc, itfd, itoff, iruns, ifirst>>
    /\ UNCHANGED <<adir, gpc, gdir, gref, gtodo, gbefore>>
    /\ UNCHANGED <<collectVars, fanVars, headVars, scanVars, rerunVars, openVars, restoreVars, lockVars, fsVars, remoteVars, pushVars, pullVars>>

\* _lock leaves scope: tgit_core's Drop for LockFile
AddDrop ==
    /\ apc = "drop"
    /\ lockFile' = NoLockFile
    /\ apc' = "idle"
    /\ adir' = 1
    /\ UNCHANGED <<now, lpc, lres, lmod, lstart, lfree>>
    /\ UNCHANGED <<mfile, gpc, gdir, gref, gtodo, gbefore>>
    /\ UNCHANGED <<collectVars, fanVars, headVars, scanVars, rerunVars, openVars, fsVars, ingestVars, remoteVars, pushVars, restoreVars, pullVars>>

StoredBlobs == {h \in Hashes : Exists(Blob(h))}

\* Commands::Gc begins in working directory d
GcStart(d) ==
    /\ gpc = "idle"
    /\ gpc' = "scan"
    /\ gdir' = d
    /\ gref' = {}
    /\ gtodo' = {}
    /\ gbefore' = StoredBlobs
    /\ UNCHANGED <<mfile, apc, adir>>
    /\ UNCHANGED <<collectVars, fanVars, headVars, scanVars, rerunVars, openVars, restoreVars, lockVars, fsVars, ingestVars, remoteVars, pushVars, pullVars>>

\* The hashes of the other manifests that serde_json::from_reader parses.
ParsedHashes(files) ==
    UNION {files[i].hashes : i \in {j \in DOMAIN files : files[j].state = "ok"}}

\* let f = File::open(&path)?;
GcOpenManifests(files) ==
    IF \E i \in DOMAIN files : files[i].state = "open_fails" THEN "error" ELSE "list"

\* 1. Collect all referenced hashes from the *.tgit.json files of ".": a
\* file that does not open ends main with the error, one that does not
\* parse is passed over.
GcScanManifests ==
    /\ gpc = "scan"
    /\ gref' = (IF mfile[gdir].present THEN mfile[gdir].hashes ELSE {})
                  \cup ParsedHashes(others)
    /\ gpc' = GcOpenManifests(others)
    /\ UNCHANGED <<mfile, apc, adir, gdir, gtodo, gbefore>>
    /\ UNCHANGED <<collectVars, fanVars, headVars, scanVars, rerunVars, openVars, restoreVars, lockVars, fsVars, ingestVars, remoteVars, pushVars, pullVars>>

\* std::fs::read_dir(&store_path)
GcListStore ==
    /\ gpc = "list"
    /\ gtodo' = {n \in StoreNames : Exists(n)}
    /\ gpc' = "sweep"
    /\ UNCHANGED <<mfile, apc, adir, gdir, gref, gbefore>>
    /\ UNCHANGED <<collectVars, fanVars, headVars, scanVars, rerunVars, openVars, restoreVars, lockVars, fsVars, ingestVars, remoteVars, pushVars, pullVars>>

\* referenced_hashes.contains(hash), hash being the entry's file name
GcReferencesNothing(name, referenced) == FALSE

GcReferenced(name, referenced) == name[1] = "blob" /\ name[2] \in referenced

\* 2. one entry of the scan: delete it unless it is referenced
GcSweepEntry(n) ==
    /\ gpc = "sweep"
    /\ n \in gtodo
    /\ gtodo' = gtodo \ {n}
    /\ IF ~GcReferenced(n, gref) /\ Exists(n)
         THEN /\ dir' = [dir EXCEPT ![n] = 0]
              /\ ino' = Reaped(ino, dir', OpenFds)
         ELSE UNCHANGED <<dir, ino>>
    /\ UNCHANGED <<mfile, apc, adir, gpc, gdir, gref, gbefore>>
    /\ UNCHANGED <<collectVars, fanVars, headVars, scanVars, rerunVars, openVars, restoreVars, lockVars, ingestVars, remoteVars, pushVars, pullVars>>

\* "GC Complete."
GcFinish ==
    /\ gpc = "sweep"
    /\ gtodo = {}
    /\ gpc' = "done"
    /\ UNCHANGED <<mfile, apc, adir, gdir, gref, gtodo, gbefore>>
    /\ UNCHANGED <<collectVars, fanVars, headVars, scanVars, rerunVars, openVars, restoreVars, lockVars, fsVars, ingestVars, remoteVars, pushVars, pullVars>>

\* the gc process ends
GcExit ==
    /\ gpc \in {"done", "error"}
    /\ gpc' = "idle"
    /\ gdir' = 1
    /\ gref' = {}
    /\ gbefore' = {}
    /\ UNCHANGED <<mfile, apc, adir, gtodo>>
    /\ UNCHANGED <<collectVars, fanVars, headVars, scanVars, rerunVars, openVars, restoreVars, lockVars, fsVars, ingestVars, remoteVars, pushVars, pullVars>>

InitCli ==
    /\ LockInit
    /\ NoResults
    /\ FanIdle
    /\ NoHeadAnswers
    /\ NoOtherManifests
    /\ NoRerun
    /\ OpenIdle
    /\ FsEmpty
    /\ IngestIdle
    /\ RemoteEmpty
    /\ PullIdle
    /\ CliIdle
    /\ PushIdle
    /\ RestoreIdle

\* add and gc run as two processes in the same working directory, interleaved.
CliNext ==
    \/ AddLock(1)
    \/ AddProcessStart
    \/ \E t \in Tensors : IngestCheckExists(t)
    \/ \E t \in Tensors : IngestCreateTmp(t)
    \/ \E t \in Tensors : IngestWriteChunk(t)
    \/ \E t \in Tensors : IngestRename(t)
    \/ AddProcessReturn
    \/ AddWriteManifest
    \/ AddDrop
    \/ GcStart(1)
    \/ GcScanManifests
    \/ GcListStore
    \/ \E n \in StoreNames : GcSweepEntry(n)
    \/ GcFinish
    \/ GcExit

SpecCli == InitCli /\ [][CliNext]_vars

\* add and gc run one command at a time.
SeqAddLock(d) == gpc = "idle" /\ AddLock(d)

SeqGcStart(d) == apc = "idle" /\ GcStart(d)

CliSeqNext ==
    \/ \E d \in Dirs : SeqAddLock(d)
    \/ AddProcessStart
    \/ \E t \in Tensors : IngestCheckExists(t)
    \/ \E t \in Tensors : IngestCreateTmp(t)
    \/ \E t \in Tensors : IngestWriteChunk(t)
    \/ \E t \in Tensors : IngestRename(t)
    \/ AddProcessReturn
    \/ AddWriteManifest
    \/ AddDrop
    \/ \E d \in Dirs : SeqGcStart(d)
    \/ GcScanManifests
    \/ GcListStore
    \/ \E n \in StoreNames : GcSweepEntry(n)
    \/ GcFinish
    \/ GcExit

SpecCliSeq == InitCli /\ [][CliSeqNext]_vars

GcHoldsLock == lockFile.exists /\ lockFile.creator = GcProc

\* C7: gc deletes blobs only while holding the repository lock, and a gc
\* run and an add run never overlap in their store-mutating sections.
C7_GcUnderLock ==
    /\ gpc = "sweep" => GcHoldsLock
    /\ ~(gpc = "sweep" /\ apc = "process")

(***************************************************************************)
(* gc in a working directory with a manifest that does not open or parse.  *)
(***************************************************************************)
\* Another manifest file: absent, well-formed, one that File::open fails
\* on, or one whose contents do not parse.
OtherManifestFiles ==
    {AbsentManifest}
      \cup [state : {"ok", "open_fails", "parse_fails"}, hashes : SUBSET Hashes]

InitGcScan ==
    /\ LockInit
    /\ NoResults
    /\ FanIdle
    /\ NoHeadAnswers
    /\ NoRerun
    /\ OpenIdle
    /\ IngestIdle
    /\ \E present \in SUBSET Hashes : StoreOfBlobs(present)
    /\ RemoteEmpty
    /\ PullIdle
    /\ PushIdle
    /\ RestoreIdle
    /\ others \in [1..NumOtherManifests -> OtherManifestFiles]
    /\ \E hs \in SUBSET Hashes :
         mfile = [d \in Dirs |->
                    IF d = 1 THEN [present |-> TRUE, hashes |-> hs]
                             ELSE NoManifestFile]
    /\ apc = "idle"
    /\ adir = 1
    /\ gpc = "idle"
    /\ gdir = 1
    /\ gref = {}
    /\ gtodo = {}
    /\ gbefore = {}

GcScanNext ==
    \/ GcStart(1)
    \/ GcScanManifests
    \/ GcListStore
    \/ \E n \in StoreNames : GcSweepEntry(n)
    \/ GcFinish
    \/ GcExit

SpecGcScan == InitGcScan /\ [][GcScanNext]_vars

\* C28: when gc has read the manifests of a working directory in which some
\* manifest does not open or does not parse, it goes on to the sweep, and
\* its referenced set is the hashes of the manifests that do open and
\* parse.
C28_UnreadableManifestSkipped ==
    (/\ gpc \notin {"idle", "scan"}
     /\ \E i \in DOMAIN others : others[i].state \in {"open_fails", "parse_fails"})
    => /\ gpc \in {"list", "sweep", "done"}
       /\ gref = mfile[gdir].hashes \cup ParsedHashes(others)

\* C27: a step of gc's sweep removes no store entry whose file name is not
\* a hash, such as the <hash>.tmp file of a running insert.
C27_GcIgnoresOtherNames ==
    [][(gpc = "sweep" /\ gtodo' # gtodo) =>
          \A n \in StoreNames : n[1] # "blob" => dir'[n] = dir[n]]_vars

(***************************************************************************)
(* Push: RemoteClient::push (vekt_core/src/remote.rs).                     *)
(***************************************************************************)
PushInit ==
    /\ upc = "head_manifest"
    /\ umani \in [Tensors -> Hashes]
    /\ utpc = [t \in Tensors |-> "idle"]
    /\ utfd = [t \in Tensors |-> 0]

\* head_object on the manifest path only prints a warning.
PushHeadManifest ==
    /\ upc = "head_manifest"
    /\ upc' = "tasks"
    /\ utpc' = [t \in Tensors |-> "head"]
    /\ UNCHANGED <<umani, utfd>>
    /\ UNCHANGED <<collectVars, fanVars, headVars, scanVars, rerunVars, openVars, restoreVars, lockVars, fsVars, ingestVars, remoteVars, pullVars, cliVars>>

\* A missing local blob only warns and the task counts as done.
PushMissingBlobWarns(localExists) == IF localExists THEN "open" ELSE "skipped"

\* What a task does when head_object did not answer 200.
PushAfterHeadMiss(localExists) ==
    IF localExists THEN "open" ELSE "BlobNotFound"

\* The status head_object came back with, as the match on it sees it.
HeadAnswer(answered200) == IF answered200 THEN "200" ELSE "other"

\* A task that uploads whatever head_object answered.
PushIgnoresHead(localExists) == IF localExists THEN "open" ELSE "BlobNotFound"

\* Ok((_, 200)) => Ok((false, hash)): the task ends before blob_path is
\* looked at.
PushAfterHead200(localExists) == "skipped"

\* head_object on blobs/<hash>: 200 skips the upload; anything else (404 or
\* an error) goes on to blob_path.exists().
PushHeadBlob(t) ==
    /\ upc = "tasks"
    /\ utpc[t] = "head"
    /\ \E answered200 \in BOOLEAN :
         /\ answered200 => rblob[umani[t]] # <<>>
         /\ uhead' = [uhead EXCEPT ![t] = HeadAnswer(answered200)]
         /\ utpc' = [utpc EXCEPT ![t] =
                IF answered200 THEN PushAfterHead200(Exists(Blob(umani[t])))
                ELSE PushAfterHeadMiss(Exists(Blob(umani[t])))]
    /\ UNCHANGED <<upc, umani, utfd>>
    /\ UNCHANGED <<collectVars, fanVars, scanVars, rerunVars, openVars, restoreVars, lockVars, fsVars, ingestVars, remoteVars, pullVars, cliVars>>

\* File::open(&blob_path)
PushOpenBlob(t) ==
    /\ upc = "tasks"
    /\ utpc[t] = "open"
    /\ IF Exists(Blob(umani[t]))
       THEN /\ utfd' = [utfd EXCEPT ![t] = dir[Blob(umani[t])]]
            /\ utpc' = [utpc EXCEPT ![t] = "put"]
       ELSE /\ utpc' = [utpc EXCEPT ![t] = "Io"]
            /\ UNCHANGED utfd
    /\ UNCHANGED <<upc, umani>>
    /\ UNCHANGED <<collectVars, fanVars, headVars, scanVars, rerunVars, openVars, restoreVars, lockVars, fsVars, ingestVars, remoteVars, pullVars, cliVars>>

\* put_object_stream: the object appears whole, or the request fails (an
\* error or a status other than 200) and the task returns RemoteError.
PushPutBlob(t) ==
    /\ upc = "tasks"
    /\ utpc[t] = "put"
    /\ \E ok \in BOOLEAN :
         IF ok
         THEN /\ rblob' = [rblob EXCEPT ![umani[t]] = ino[utfd[t]]]
              /\ utpc' = [utpc EXCEPT ![t] = "uploaded"]
         ELSE /\ utpc' = [utpc EXCEPT ![t] = "RemoteError"]
              /\ UNCHANGED rblob
    /\ utfd' = [utfd EXCEPT ![t] = 0]
    /\ ino' = Reaped(ino, dir, OpenFds \ {utfd[t]})
    /\ UNCHANGED <<upc, umani, rman, dir>>
    /\ UNCHANGED <<collectVars, fanVars, headVars, scanVars, rerunVars, openVars, restoreVars, lockVars, ingestVars, pullVars, cliVars>>

\* The errors a blob task of push returns.
PushErrors == {"BlobNotFound", "Io", "RemoteError"}

PushTaskDone(t) == utpc[t] \in {"skipped", "uploaded"} \cup PushErrors

\* tasks.collect().await, then res? on every result: the first error
\* returns from push before the manifest is serialised.
PushCollect ==
    /\ upc = "tasks"
    /\ \A t \in Tensors : PushTaskDone(t)
    /\ upc' = IF \E t \in Tensors : utpc[t] \in PushErrors
              THEN "err" ELSE "put_manifest"
    /\ UNCHANGED <<umani, utpc, utfd>>
    /\ UNCHANGED <<collectVars, fanVars, headVars, scanVars, rerunVars, openVars, restoreVars, lockVars, fsVars, ingestVars, remoteVars, pullVars, cliVars>>

\* put_object on manifests/<name>
PushPutManifest ==
    /\ upc = "put_manifest"
    /\ \E ok \in BOOLEAN :
         IF ok
         THEN /\ rman' = [present |-> TRUE, tensors |-> umani,
                          version |-> CURRENT_VERSION]
              /\ upc' = "ok"
         ELSE /\ upc' = "err"
              /\ UNCHANGED rman
    /\ UNCHANGED <<umani, utpc, utfd, rblob>>
    /\ UNCHANGED <<collectVars, fanVars, headVars, scanVars, rerunVars, openVars, restoreVars, lockVars, fsVars, ingestVars, pullVars, cliVars>>

PushNext ==
    \/ PushHeadManifest
    \/ \E t \in Tensors : PushHeadBlob(t)
    \/ \E t \in Tensors : PushOpenBlob(t)
    \/ \E t \in Tensors : PushPutBlob(t)
    \/ PushCollect
    \/ PushPutManifest

\* Before a push: a local store of whole blobs, and a bucket that holds any
\* of the blobs and possibly an older manifest of the same name.
InitPush ==
    /\ LockInit
    /\ NoResults
    /\ FanIdle
    /\ NoHeadAnswers
    /\ NoOtherManifests
    /\ NoRerun
    /\ OpenIdle
    /\ IngestIdle
    /\ \E present \in SUBSET Hashes : StoreOfBlobs(present)
    /\ rman \in RemoteManifests({CURRENT_VERSION})
    /\ rblob \in [Hashes -> {<<>>} \cup {Payload(h) : h \in Hashes}]
    /\ \A h \in Hashes : rblob[h] \in {<<>>, Payload(h)}
    /\ PullIdle
    /\ CliIdle
    /\ PushInit
    /\ RestoreIdle

SpecPush == InitPush /\ [][PushNext]_vars

(***************************************************************************)
(* Claims about push.                                                      *)
(***************************************************************************)
\* C5: push puts the manifest only after every blob task has succeeded, so
\* once push has got as far as the manifest put every hash of the manifest
\* has its blob in the bucket, and a successful push leaves its manifest
\* there.
C5_PushOrdering ==
    /\ upc \in {"put_manifest", "ok"} =>
         \A t \in Tensors :
            /\ utpc[t] \in {"skipped", "uploaded"}
            /\ rblob[umani[t]] # <<>>
    /\ upc = "ok" => (rman.present /\ rman.tensors = umani)

\* A push that returned Ok after uploading one blob and skipping another.
C5_Witness ==
    /\ upc = "ok"
    /\ \E t \in Tensors : utpc[t] = "uploaded"
    /\ \E t \in Tensors : utpc[t] = "skipped"

\* C29: a task whose head_object answered 200 ends as skipped, holding no
\* open blob file, whether or not the blob is in the local store; it issues
\* no put, and no step of the push changes the remote blob of its hash.
C29_Head200NoPut ==
    /\ [](\A t \in Tensors :
            uhead[t] = "200" => (utpc[t] = "skipped" /\ utfd[t] = 0))
    /\ [][\A t \in Tensors :
            (uhead[t] = "200" \/ uhead'[t] = "200") =>
                rblob'[umani[t]] = rblob[umani[t]]]_vars

\* A push that returned Ok although the blob of a tensor is absent from the
\* local store: head_object answered 200 for it and the remote blob is there.
C29_Witness ==
    /\ upc = "ok"
    /\ \E t \in Tensors :
         /\ uhead[t] = "200"
         /\ ~Exists(Blob(umani[t]))
         /\ rblob[umani[t]] = Payload(umani[t])

(***************************************************************************)
(* Claims about add running next to gc.                                    *)
(***************************************************************************)
\* C36: at the step in which add writes its manifest, every hash the
\* manifest references has a blob file in the local store, however the
\* steps of a gc run in the same directory fall between those of the add.
C36_AddedManifestHasBlobs ==
    [][(AddWriteManifest /\ gdir = adir) =>
          \A h \in mfile'[adir].hashes : dir'[Blob(h)] # 0]_vars

(***************************************************************************)
(* A push from a store that holds every blob, followed by a pull of the    *)
(* same manifest name into another, empty store.                           *)
(***************************************************************************)
\* The pull starts on a machine whose local store is empty; the store the
\* push read from plays no further part.
PullIntoEmptyStore ==
    /\ upc = "ok"
    /\ ppc = "idle"
    /\ ppc' = "start"
    /\ dir' = [n \in StoreNames |-> 0]
    /\ ino' = [i \in Inodes |-> <<>>]
    /\ UNCHANGED <<pman, ptpc, ptfd, ptoff, ptbytes>>
    /\ UNCHANGED <<collectVars, fanVars, headVars, scanVars, rerunVars, openVars, restoreVars, lockVars, ingestVars, remoteVars, pushVars, cliVars>>

PushPullNext ==
    \/ PushHeadManifest
    \/ \E t \in Tensors : PushHeadBlob(t)
    \/ \E t \in Tensors : PushOpenBlob(t)
    \/ \E t \in Tensors : PushPutBlob(t)
    \/ PushCollect
    \/ PushPutManifest
    \/ PullIntoEmptyStore
    \/ PullGetManifest
    \/ PullDispatch
    \/ \E t \in Tensors : PullGetStream(t)
    \/ \E t \in Tensors : PullCreateTmp(t)
    \/ \E t \in Tensors : PullCopyChunk(t)
    \/ \E t \in Tensors : PullSyncAndClose(t)
    \/ \E t \in Tensors : PullRename(t)
    \/ PullCollect

\* Before the push the local store holds every blob, whole.
InitPushPull ==
    /\ LockInit
    /\ NoResults
    /\ FanIdle
    /\ NoHeadAnswers
    /\ NoOtherManifests
    /\ NoRerun
    /\ OpenIdle
    /\ IngestIdle
    /\ StoreOfBlobs(Hashes)
    /\ rman \in RemoteManifests({CURRENT_VERSION})
    /\ rblob \in [Hashes -> {<<>>} \cup {Payload(h) : h \in Hashes}]
    /\ \A h \in Hashes : rblob[h] \in {<<>>, Payload(h)}
    /\ PullIdle
    /\ CliIdle
    /\ PushInit
    /\ RestoreIdle

SpecPushPull == InitPushPull /\ [][PushPullNext]_vars

\* C35: a pull that follows a successful push of M, into an empty store,
\* returns Ok with a manifest equal to M and leaves under every hash of M a
\* blob file whose bytes are those of the pushed blob, whether or not
\* tensors of M share a hash.
C35_PushThenPull ==
    ppc \in {"ok", "err"} =>
        /\ ppc = "ok"
        /\ pman = umani
        /\ \A t \in Tensors :
              /\ Exists(Blob(umani[t]))
              /\ ino[dir[Blob(umani[t])]] = Payload(umani[t])

(***************************************************************************)
(* Containers, process and restore (tgit_core/src/lib.rs,                  *)
(* vekt_core/src/storage.rs, vekt_core/src/utils.rs).                      *)
(***************************************************************************)
Dtypes == {"U8", "F16", "F64"}
Shapes == {<<n>> : n \in 1..MaxShape}
Fills == 1..MaxFill

\* Header entries in insertion order; the manifest's keys sort differently.
EntryNames == << <<"b">>, <<"a">>, <<"c">>, <<"d">> >>

\* The width of one element in a container, by dtype.
ElementBytes(dtype) ==
    CASE dtype = "F32" -> 4
      [] dtype = "F16" -> 2
      [] dtype = "BF16" -> 2
      [] dtype = "F64" -> 8
      [] dtype = "I64" -> 8
      [] dtype = "I32" -> 4
      [] dtype = "I16" -> 2
      [] dtype = "I8" -> 1
      [] dtype = "U8" -> 1
      [] dtype = "BOOL" -> 1

get_dtype_size(dtype) ==
    CASE dtype = "F32" -> 4
      [] dtype = "F16" -> 2
      [] dtype = "BF16" -> 2
      [] dtype = "I64" -> 8
      [] dtype = "I32" -> 4
      [] dtype = "I16" -> 2
      [] dtype = "I8" -> 1
      [] dtype = "U8" -> 1
      [] dtype = "BOOL" -> 1
      [] OTHER -> 1

RECURSIVE Product(_)
Product(shape) ==
    IF shape = <<>> THEN 1 ELSE Head(shape) * Product(Tail(shape))

Zeros(n) == [i \in 1..n |-> 0]

\* (8 - (offset % 8)) % 8
Padding(offset) == (8 - (offset % 8)) % 8

\* blake3::hash of a byte string, taken to be free of collisions.
HashHex(bytes) == <<"blake3", bytes>>

\* A container whose tensors are laid out in header order, each starting at
\* the next multiple of 8 after the previous one, with zero bytes between.
RECURSIVE PlaceEntries(_, _, _, _)
PlaceEntries(specs, i, hdr, data) ==
    IF i > Len(specs) THEN [header |-> hdr, data |-> data]
    ELSE LET start == Len(data) + Padding(Len(data))
             size == Product(specs[i].shape) * ElementBytes(specs[i].dtype)
             entry == [name |-> EntryNames[i],
                       shape |-> specs[i].shape,
                       dtype |-> specs[i].dtype,
                       data_offsets |-> <<start, start + size>>]
         IN PlaceEntries(specs, i + 1, Append(hdr, entry),
                data \o Zeros(start - Len(data))
                     \o [k \in 1..size |-> specs[i].fill])

EntrySpecs == [dtype : Dtypes, shape : Shapes, fill : Fills]

Containers ==
    {PlaceEntries(specs, 1, <<>>, <<>>) :
        specs \in UNION {[1..n -> EntrySpecs] : n \in 1..MaxEntries}}

\* &self.mmap[absolute_start..absolute_end], in data-region offsets
DataSlice(c, entry) ==
    SubSeq(c.data, entry.data_offsets[1] + 1, entry.data_offsets[2])

\* header_len: the length of the header's JSON, taken as a fixed number of
\* bytes for each entry.
HeaderLen(c) == HeaderBytesPerEntry * Len(c.header)

\* self.mmap.len(): the 8 length bytes, the header and the data region
MmapLen(c) == 8 + HeaderLen(c) + Len(c.data)

\* A range test that also rejects a tensor ending with the mapped file.
EndsBeforeEnd(absolute_end, mmap_len) == absolute_end < mmap_len

\* !(absolute_end > self.mmap.len())
InRange(absolute_end, mmap_len) == ~(absolute_end > mmap_len)

\* The entries process keeps: those that end inside the mapped file.
Surviving(c) ==
    {i \in 1..Len(c.header) :
        InRange(HeaderLen(c) + 8 + c.header[i].data_offsets[2], MmapLen(c))}

\* The manifest tensors of process, keyed by name; index is the entry's
\* position in the header.
ProcessTensors(c) ==
    [name \in {c.header[i].name : i \in Surviving(c)} |->
        LET i == CHOOSE j \in Surviving(c) : c.header[j].name = name
        IN [shape |-> c.header[i].shape,
            dtype |-> c.header[i].dtype,
            hash |-> HashHex(DataSlice(c, c.header[i])),
            index |-> i - 1]]

\* The blob directory after process(save_blobs = true) has run alone: a blob
\* that exists is left as it is, a new one holds the slice.
ProcessBlobs(c, store) ==
    LET new == {HashHex(DataSlice(c, c.header[i])) : i \in Surviving(c)}
    IN [h \in DOMAIN store \cup new |->
            IF h \in DOMAIN store THEN store[h] ELSE h[2]]

RoundTripInit ==
    /\ cont \in Containers
    /\ man = <<>>
    /\ objects = <<>>
    /\ rpc = "process"
    /\ rloc = NoLocals
    /\ writer = NoFile
    /\ output = NoFile
    /\ rres = "none"
    /\ stderr = {}
    /\ filter = NoFilter

Process ==
    /\ rpc = "process"
    /\ man' = ProcessTensors(cont)
    /\ objects' = ProcessBlobs(cont, objects)
    /\ rpc' = "stored"
    /\ stderr' = {cont.header[i].name : i \in (1..Len(cont.header)) \ Surviving(cont)}
    /\ UNCHANGED <<cont, rloc, writer, output, rres, filter>>
    /\ UNCHANGED <<collectVars, fanVars, headVars, scanVars, rerunVars, openVars, lockVars, fsVars, ingestVars, remoteVars, pullVars, cliVars, pushVars>>

\* Something other than tgit rewrites one blob file in place.
ModifyBlob(h) ==
    /\ rpc = "stored"
    /\ h \in DOMAIN objects
    /\ HashHex(objects[h]) = h
    /\ objects' = [objects EXCEPT ![h] = [@ EXCEPT ![1] = 99]]
    /\ rpc' = "modified"
    /\ UNCHANGED <<cont, man, rloc, writer, output, rres, stderr, filter>>
    /\ UNCHANGED <<collectVars, fanVars, headVars, scanVars, rerunVars, openVars, lockVars, fsVars, ingestVars, remoteVars, pullVars, cliVars, pushVars>>

\* Strings are sequences of one-character strings.
\* str::split(','): the pieces between the commas, empty pieces included.
RECURSIVE Split(_)
Split(str) ==
    IF \A k \in 1..Len(str) : str[k] # ","
    THEN <<str>>
    ELSE LET i == CHOOSE k \in 1..Len(str) :
                     str[k] = "," /\ \A m \in 1..(k - 1) : str[m] # ","
         IN <<SubSeq(str, 1, i - 1)>> \o Split(SubSeq(str, i + 1, Len(str)))

\* A term taken as it stands between the commas.
NoTrim(str) == str

\* str::trim(): leading and trailing white space removed.
RECURSIVE Trim(_)
Trim(str) ==
    IF str = <<>> THEN str
    ELSE IF Head(str) = " " THEN Trim(Tail(str))
    ELSE IF str[Len(str)] = " " THEN Trim(SubSeq(str, 1, Len(str) - 1))
    ELSE str

\* name.contains(term)
Contains(name, term) ==
    \E k \in 0..(Len(name) - Len(term)) :
        \A m \in 1..Len(term) : name[k + m] = term[m]

\* The closure given to keys().filter(..)
KeepName(f, name) ==
    IF f.some
    THEN \E j \in 1..Len(Split(f.value)) :
            Contains(name, Trim(Split(f.value)[j]))
    ELSE TRUE

\* A sort key that reverses the order of the indices.
DescendingKey(tensors, name) == 0 - tensors[name].index

\* |name| self.tensors[*name].index
SortKey(tensors, name) == tensors[name].index

\* The names the filter keeps, after
\* sorted_tensor_names.sort_by_key(|name| self.tensors[*name].index)
SortedTensorNames(tensors, f) ==
    LET kept == {name \in DOMAIN tensors : KeepName(f, name)}
        n == Cardinality(kept)
    IN CHOOSE s \in [1..n -> kept] :
          /\ \A i, j \in 1..n : i # j => s[i] # s[j]
          /\ \A i, j \in 1..n :
                i < j => SortKey(tensors, s[i]) <= SortKey(tensors, s[j])

\* verify_blob_hash: BLAKE3 of the bytes read must equal the recorded hash.
verify_blob_hash(blob_data, hash) == HashHex(blob_data) = hash

\* Pass 1: the header, with offsets recomputed; placed is written_hashes.
RECURSIVE Pass1(_, _, _, _, _, _)
Pass1(tensors, names, i, current_offset, placed, header_map) ==
    IF i > Len(names) THEN header_map
    ELSE LET name == names[i]
             tensor == tensors[name]
         IN IF tensor.hash \in DOMAIN placed
            THEN Pass1(tensors, names, i + 1, current_offset, placed,
                    Append(header_map,
                        [name |-> name, shape |-> tensor.shape,
                         dtype |-> tensor.dtype,
                         data_offsets |-> placed[tensor.hash]]))
            ELSE LET start == current_offset + Padding(current_offset)
                     size == Product(tensor.shape) * get_dtype_size(tensor.dtype)
                 IN Pass1(tensors, names, i + 1, start + size,
                        (tensor.hash :> <<start, start + size>>) @@ placed,
                        Append(header_map,
                            [name |-> name, shape |-> tensor.shape,
                             dtype |-> tensor.dtype,
                             data_offsets |-> <<start, start + size>>]))

\* The character NUL.
NUL == "0x00"

\* validate_tensor_name: a name with a path separator, "..", NUL or a
\* leading '/' is refused.
validate_tensor_name(name) ==
    IF \/ Contains(name, <<"/">>)
       \/ Contains(name, <<"\\">>)
       \/ Contains(name, <<".", ".">>)
       \/ Contains(name, <<NUL>>)
       \/ (name # <<>> /\ Head(name) = "/")
    THEN "InvalidName"
    ELSE "ok"

\* A check of the names the filter keeps only.
KeptNames(tensors, f) == {name \in DOMAIN tensors : KeepName(f, name)}

\* for name in self.tensors.keys()
NamesToValidate(tensors, f) == DOMAIN tensors

\* restore up to the end of pass 1: the names validated, File::create, the
\* header built and written to the BufWriter.
RestoreWriteHeader ==
    /\ rpc \in {"stored", "modified"}
    /\ IF \E name \in NamesToValidate(man, filter) :
             validate_tensor_name(name) # "ok"
       THEN /\ rres' = "InvalidName"
            /\ rpc' = "returned"
            /\ UNCHANGED <<writer, rloc, output>>
       ELSE /\ LET names == SortedTensorNames(man, filter)
               IN /\ writer' = [exists |-> TRUE,
                                header |-> Pass1(man, names, 1, 0, <<>>, <<>>),
                                data |-> <<>>]
                  /\ rloc' = [names |-> names, written_hashes |-> {},
                              current_write_pos |-> 0, blobs_read |-> {}]
            /\ output' = [exists |-> TRUE, header |-> <<>>, data |-> <<>>]
            /\ rpc' = "pass2"
            /\ rres' = rres
    /\ UNCHANGED <<cont, man, objects, stderr, filter>>
    /\ UNCHANGED <<collectVars, fanVars, headVars, scanVars, rerunVars, openVars, lockVars, fsVars, ingestVars, remoteVars, pullVars, cliVars, pushVars>>

\* A pass 2 that never finds a hash already written.
NeverWritten(written_hashes, hash) == FALSE

\* written_hashes.contains_key(&tensor.hash)
AlreadyWritten(written_hashes, hash) == hash \in written_hashes

\* One iteration of pass 2.  An early return drops the BufWriter, and the
\* drop writes what it holds to the file.
RestoreWriteTensor ==
    /\ rpc = "pass2"
    /\ rloc.names # <<>>
    /\ LET tensor == man[Head(rloc.names)]
           padding == Padding(rloc.current_write_pos)
           padded == [writer EXCEPT !.data = @ \o Zeros(padding)]
       IN IF AlreadyWritten(rloc.written_hashes, tensor.hash)
          THEN /\ rloc' = [rloc EXCEPT !.names = Tail(@)]
               /\ UNCHANGED <<writer, output, rpc, rres>>
          ELSE IF tensor.hash \notin DOMAIN objects
          THEN /\ rres' = "BlobNotFound"
               /\ output' = padded
               /\ rpc' = "returned"
               /\ UNCHANGED <<writer, rloc>>
          ELSE IF ~verify_blob_hash(objects[tensor.hash], tensor.hash)
          THEN /\ rres' = "BlobCorrupt"
               /\ output' = padded
               /\ rpc' = "returned"
               /\ rloc' = [rloc EXCEPT !.blobs_read = @ \cup {tensor.hash}]
               /\ UNCHANGED writer
          ELSE /\ writer' = [padded EXCEPT !.data = @ \o objects[tensor.hash]]
               /\ rloc' = [names |-> Tail(rloc.names),
                           written_hashes |->
                               rloc.written_hashes \cup {tensor.hash},
                           current_write_pos |->
                               rloc.current_write_pos + padding
                                 + Len(objects[tensor.hash]),
                           blobs_read |->
                               rloc.blobs_read \cup {tensor.hash}]
               /\ UNCHANGED <<output, rpc, rres>>
    /\ UNCHANGED <<cont, man, objects, stderr, filter>>
    /\ UNCHANGED <<collectVars, fanVars, headVars, scanVars, rerunVars, openVars, lockVars, fsVars, ingestVars, remoteVars, pullVars, cliVars, pushVars>>

\* writer.flush()?; Ok(())
RestoreFlush ==
    /\ rpc = "pass2"
    /\ rloc.names = <<>>
    /\ output' = writer
    /\ rres' = "ok"
    /\ rpc' = "returned"
    /\ UNCHANGED <<cont, man, objects, rloc, writer, stderr, filter>>
    /\ UNCHANGED <<collectVars, fanVars, headVars, scanVars, rerunVars, openVars, lockVars, fsVars, ingestVars, remoteVars, pullVars, cliVars, pushVars>>

RoundTripNext ==
    \/ Process
    \/ \E h \in DOMAIN objects : ModifyBlob(h)
    \/ RestoreWriteHeader
    \/ RestoreWriteTensor
    \/ RestoreFlush

InitRoundTrip ==
    /\ LockInit
    /\ NoResults
    /\ FanIdle
    /\ NoHeadAnswers
    /\ NoOtherManifests
    /\ NoRerun
    /\ OpenIdle
    /\ FsEmpty
    /\ IngestIdle
    /\ RemoteEmpty
    /\ PullIdle
    /\ CliIdle
    /\ PushIdle
    /\ RoundTripInit

SpecRoundTrip == InitRoundTrip /\ [][RoundTripNext]_vars

(***************************************************************************)
(* process on a container whose header points past the end of the file.    *)
(***************************************************************************)
\* The container with its last n bytes cut off.
Truncate(c, n) == [c EXCEPT !.data = SubSeq(@, 1, Len(@) - n)]

\* The container with entry i's end offset moved past the end of the file.
Overrun(c, i) == [c EXCEPT !.header[i].data_offsets[2] = Len(c.data) + 1]

DamagedContainers ==
    UNION {{Truncate(c, n) : n \in {k \in 1..MaxCut : k <= Len(c.data)}}
             \cup {Overrun(c, i) : i \in 1..Len(c.header)} : c \in Containers}

InitDamaged ==
    /\ LockInit
    /\ NoResults
    /\ FanIdle
    /\ NoHeadAnswers
    /\ NoOtherManifests
    /\ NoRerun
    /\ OpenIdle
    /\ FsEmpty
    /\ IngestIdle
    /\ RemoteEmpty
    /\ PullIdle
    /\ CliIdle
    /\ PushIdle
    /\ cont \in Containers \cup DamagedContainers
    /\ man = <<>>
    /\ objects = <<>>
    /\ rpc = "process"
    /\ rloc = NoLocals
    /\ writer = NoFile
    /\ output = NoFile
    /\ rres = "none"
    /\ stderr = {}
    /\ filter = NoFilter

SpecDamaged == InitDamaged /\ [][RoundTripNext]_vars

\* The header entries whose absolute end offset is within the mapped length.
EntriesWithin(c) ==
    {i \in 1..Len(c.header) :
        HeaderLen(c) + 8 + c.header[i].data_offsets[2] <= MmapLen(c)}

\* C18: once process has returned, the manifest has an entry for exactly the
\* header entries whose absolute end offset (header_len + 8 + end) does not
\* exceed the mapped length, each with its entry's shape, dtype and the hash
\* of its slice; every other entry has been warned about, and the store
\* holds the blobs of the entries kept and no other.
C18_OutOfRangeSkipped ==
    rpc # "process" =>
        /\ DOMAIN man = {cont.header[i].name : i \in EntriesWithin(cont)}
        /\ \A i \in EntriesWithin(cont) :
              /\ man[cont.header[i].name].shape = cont.header[i].shape
              /\ man[cont.header[i].name].dtype = cont.header[i].dtype
              /\ man[cont.header[i].name].hash =
                    HashHex(DataSlice(cont, cont.header[i]))
        /\ stderr = {cont.header[i].name :
                        i \in (1..Len(cont.header)) \ EntriesWithin(cont)}
        /\ DOMAIN objects =
              {HashHex(DataSlice(cont, cont.header[i])) : i \in EntriesWithin(cont)}

\* process has returned a manifest of two tensors for a container of three,
\* the second of which ends past the end of the file.
C18_Witness ==
    /\ rpc # "process"
    /\ Len(cont.header) = 3
    /\ Cardinality(DOMAIN man) = 2
    /\ stderr = {cont.header[2].name}

(***************************************************************************)
(* Claims about restore.                                                   *)
(***************************************************************************)
ModifiedBlobs == {h \in DOMAIN objects : HashHex(objects[h]) # h}

\* C9: a restore that ran with a modified blob file in the store has failed
\* with BlobCorrupt and its output file holds no data bytes after the header.
C9_RestoreRefusesCorruption ==
    (rpc = "returned" /\ ModifiedBlobs # {}) =>
        /\ rres = "BlobCorrupt"
        /\ output.data = <<>>

\* C10: when restore(process(C)) has returned Ok, the output's data region
\* is C's data region and its header entries are C's header entries.
C10_RoundTrip ==
    (rpc = "returned" /\ rres = "ok") =>
        /\ output.data = cont.data
        /\ output.header = cont.header

\* The hashes of a restored header's entries, in header order.
HeaderHashes(hdr) == [i \in 1..Len(hdr) |-> man[hdr[i].name].hash]

\* A sequence without its repeated elements, first occurrences kept.
RECURSIVE FirstOccurrences(_)
FirstOccurrences(seq) ==
    IF seq = <<>> THEN <<>>
    ELSE LET front == SubSeq(seq, 1, Len(seq) - 1)
             last == seq[Len(seq)]
         IN IF \E i \in 1..Len(front) : front[i] = last
            THEN FirstOccurrences(front)
            ELSE Append(FirstOccurrences(front), last)

\* The blobs of a sequence of hashes, each once, each begun on a multiple
\* of 8 with zero bytes before it.
RECURSIVE BlobsOnce(_, _)
BlobsOnce(hashes, data) ==
    IF hashes = <<>> THEN data
    ELSE BlobsOnce(Tail(hashes),
            data \o Zeros(Padding(Len(data))) \o objects[Head(hashes)])

RestoredOk == rpc = "returned" /\ rres = "ok"

\* C11: in a restored container two tensors that share a hash have the same
\* data_offsets, and the data region holds the blobs of the header's hashes
\* in the header's order, each exactly once.
C11_SharedWeightDedup ==
    RestoredOk =>
        /\ \A i, j \in 1..Len(output.header) :
              HeaderHashes(output.header)[i] = HeaderHashes(output.header)[j]
                => output.header[i].data_offsets = output.header[j].data_offsets
        /\ output.data =
              BlobsOnce(FirstOccurrences(HeaderHashes(output.header)), <<>>)

\* A restored container with two tensors of one hash and a third of another.
C11_Witness ==
    /\ RestoredOk
    /\ \E i, j, k \in 1..Len(output.header) :
          /\ i # j
          /\ HeaderHashes(output.header)[i] = HeaderHashes(output.header)[j]
          /\ HeaderHashes(output.header)[k] # HeaderHashes(output.header)[i]

(***************************************************************************)
(* restore with a filter.                                                  *)
(***************************************************************************)
\* enc.w, enc.b, dec.w, dec.b: header order differs from the order of the
\* manifest's sorted keys.
TensorNames ==
    << <<"e", "n", "c", ".", "w">>, <<"e", "n", "c", ".", "b">>,
       <<"d", "e", "c", ".", "w">>, <<"d", "e", "c", ".", "b">> >>

\* The container with its entries named from a list of names.
NamedFrom(c, names) ==
    [c EXCEPT !.header =
        [i \in 1..Len(c.header) |-> [c.header[i] EXCEPT !.name = names[i]]]]

\* The container with its entries named from TensorNames.
Named(c) == NamedFrom(c, TensorNames)

NamedContainers ==
    {Named(c) : c \in {d \in Containers :
                        \A i \in 1..Len(d.header) : d.header[i].dtype = "U8"}}

\* "enc", "enc, dec", " w", "c.b", "x", "" and "dec,"
Filters ==
    { <<"e", "n", "c">>,
      <<"e", "n", "c", ",", " ", "d", "e", "c">>,
      <<" ", "w">>,
      <<"c", ".", "b">>,
      <<"x">>,
      <<>>,
      <<"d", "e", "c", ",">> }

InitFilter ==
    /\ LockInit
    /\ NoResults
    /\ FanIdle
    /\ NoHeadAnswers
    /\ NoOtherManifests
    /\ NoRerun
    /\ OpenIdle
    /\ FsEmpty
    /\ IngestIdle
    /\ RemoteEmpty
    /\ PullIdle
    /\ CliIdle
    /\ PushIdle
    /\ cont \in NamedContainers
    /\ man = <<>>
    /\ objects = <<>>
    /\ rpc = "process"
    /\ rloc = NoLocals
    /\ writer = NoFile
    /\ output = NoFile
    /\ rres = "none"
    /\ stderr = {}
    /\ filter \in {NoFilter} \cup {[some |-> TRUE, value |-> f] : f \in Filters}

SpecFilter == InitFilter /\ [][RoundTripNext]_vars

\* Some piece of str between two commas (or an end of str), without the
\* white space at its ends, occurs in name.
TermOccurs(name, str) ==
    \E a \in 1..(Len(str) + 1) : \E b \in (a - 1)..Len(str) :
        /\ a = 1 \/ str[a - 1] = ","
        /\ b = Len(str) \/ str[b + 1] = ","
        /\ \A k \in a..b : str[k] # ","
        /\ \E c \in a..(b + 1) : \E d \in (c - 1)..b :
              /\ \A k \in a..(c - 1) : str[k] = " "
              /\ \A k \in (d + 1)..b : str[k] = " "
              /\ c <= d => (str[c] # " " /\ str[d] # " ")
              /\ \E p \in 0..(Len(name) - (d - c + 1)) :
                    \A k \in 0..(d - c) : name[p + 1 + k] = str[c + k]

\* C19: a restore that returned Ok has written a header entry for exactly
\* the manifest's tensors whose name contains one of the filter's
\* comma-separated terms with the white space at its ends removed, each
\* once; with no filter it has written one for every tensor.
C19_FilterKeeps ==
    RestoredOk =>
        /\ {output.header[i].name : i \in 1..Len(output.header)} =
              {name \in DOMAIN man :
                  ~filter.some \/ TermOccurs(name, filter.value)}
        /\ \A i, j \in 1..Len(output.header) :
              i # j => output.header[i].name # output.header[j].name

\* restore with the filter "enc" over enc.w, enc.b and dec.w has written
\* enc.w and enc.b and nothing else.
C19_Witness ==
    /\ RestoredOk
    /\ filter = [some |-> TRUE, value |-> <<"e", "n", "c">>]
    /\ DOMAIN man = {TensorNames[1], TensorNames[2], TensorNames[3]}
    /\ {output.header[i].name : i \in 1..Len(output.header)} =
          {TensorNames[1], TensorNames[2]}

\* The hashes of the named tensors, by ascending index from idx on.
RECURSIVE HashesFromIndex(_, _)
HashesFromIndex(names, idx) ==
    IF \A name \in names : man[name].index < idx THEN <<>>
    ELSE LET at == {name \in names : man[name].index = idx}
         IN (IF at = {} THEN <<>> ELSE <<man[CHOOSE name \in at : TRUE].hash>>)
              \o HashesFromIndex(names, idx + 1)

\* C20: in a restore that returned Ok, the header entries stand in strictly
\* ascending order of their tensors' index in the manifest, and the data
\* region holds the blobs of the tensors written, in ascending order of
\* index, each begun on a multiple of 8 and a shared blob once at its first
\* tensor; this is so with and without a filter.
C20_IndexOrder ==
    RestoredOk =>
        /\ \A i, j \in 1..Len(output.header) :
              i < j => man[output.header[i].name].index
                         < man[output.header[j].name].index
        /\ output.data =
              BlobsOnce(FirstOccurrences(HashesFromIndex(
                  {output.header[i].name : i \in 1..Len(output.header)}, 0)),
                  <<>>)

\* A restore under the filter " w" of a manifest of enc.w, enc.b and dec.w
\* with different data: the output has enc.w (index 0) before dec.w
\* (index 2), while the manifest's sorted keys have dec.w first.
C20_Witness ==
    /\ RestoredOk
    /\ filter = [some |-> TRUE, value |-> <<" ", "w">>]
    /\ Cardinality(DOMAIN man) = 3
    /\ Len(output.header) = 2
    /\ output.header[1].name = TensorNames[1]
    /\ output.header[2].name = TensorNames[3]
    /\ man[TensorNames[1]].hash # man[TensorNames[3]].hash
    /\ man[TensorNames[1]].index = 0
    /\ man[TensorNames[3]].index = 2

(***************************************************************************)
(* TGitManifest::restore (tgit_core/src/storage.rs).                       *)
(***************************************************************************)
\* The characters of the modelled names, in the order of their bytes.
Alphabet == <<NUL, ".", "/", "\\", "a", "b", "c", "d", "e", "n", "w", "x">>

CharRank(ch) == CHOOSE i \in 1..Len(Alphabet) : Alphabet[i] = ch

\* The order of String: byte by byte, a proper prefix first.
RECURSIVE StrLess(_, _)
StrLess(a, b) ==
    IF b = <<>> THEN FALSE
    ELSE IF a = <<>> THEN TRUE
    ELSE IF Head(a) # Head(b) THEN CharRank(Head(a)) < CharRank(Head(b))
    ELSE StrLess(Tail(a), Tail(b))

\* self.tensors.keys().collect() and sorted_tensor_names.sort()
TgitSortedNames(tensors) ==
    LET n == Cardinality(DOMAIN tensors)
    IN CHOOSE s \in [1..n -> DOMAIN tensors] :
          \A i, j \in 1..n : i < j => StrLess(s[i], s[j])

\* The first loop: each tensor's range follows the one before it.
RECURSIVE TgitHeader(_, _, _, _, _)
TgitHeader(tensors, names, i, current_offset, header_map) ==
    IF i > Len(names) THEN header_map
    ELSE LET tensor == tensors[names[i]]
             size == Product(tensor.shape) * get_dtype_size(tensor.dtype)
         IN TgitHeader(tensors, names, i + 1, current_offset + size,
                Append(header_map,
                    [name |-> names[i], shape |-> tensor.shape,
                     dtype |-> tensor.dtype,
                     data_offsets |-> <<current_offset, current_offset + size>>]))

\* File::create(output_path)?, the header built and written to the BufWriter
TgitRestoreWriteHeader ==
    /\ rpc \in {"stored", "modified"}
    /\ LET names == TgitSortedNames(man)
       IN /\ writer' = [exists |-> TRUE,
                        header |-> TgitHeader(man, names, 1, 0, <<>>),
                        data |-> <<>>]
          /\ rloc' = [NoLocals EXCEPT !.names = names]
    /\ output' = [exists |-> TRUE, header |-> <<>>, data |-> <<>>]
    /\ rpc' = "copy"
    /\ UNCHANGED <<cont, man, objects, rres, stderr, filter>>
    /\ UNCHANGED <<collectVars, fanVars, headVars, scanVars, rerunVars, openVars, lockVars, fsVars, ingestVars, remoteVars, pullVars, cliVars, pushVars>>

\* One iteration of the second loop: File::open(blob_path)? and
\* std::io::copy(&mut blob_file, &mut writer)?.  An early return drops the
\* BufWriter, and the drop writes what it holds to the file.
TgitRestoreCopy ==
    /\ rpc = "copy"
    /\ rloc.names # <<>>
    /\ LET tensor == man[Head(rloc.names)]
       IN IF tensor.hash \notin DOMAIN objects
          THEN /\ rres' = "Io"
               /\ output' = writer
               /\ rpc' = "returned"
               /\ UNCHANGED <<writer, rloc>>
          ELSE /\ writer' = [writer EXCEPT !.data = @ \o objects[tensor.hash]]
               /\ rloc' = [rloc EXCEPT !.names = Tail(@),
                                       !.blobs_read = @ \cup {tensor.hash}]
               /\ UNCHANGED <<output, rpc, rres>>
    /\ UNCHANGED <<cont, man, objects, stderr, filter>>
    /\ UNCHANGED <<collectVars, fanVars, headVars, scanVars, rerunVars, openVars, lockVars, fsVars, ingestVars, remoteVars, pullVars, cliVars, pushVars>>

\* writer.flush()?; Ok(())
TgitRestoreFlush ==
    /\ rpc = "copy"
    /\ rloc.names = <<>>
    /\ output' = writer
    /\ rres' = "ok"
    /\ rpc' = "returned"
    /\ UNCHANGED <<cont, man, objects, rloc, writer, stderr, filter>>
    /\ UNCHANGED <<collectVars, fanVars, headVars, scanVars, rerunVars, openVars, lockVars, fsVars, ingestVars, remoteVars, pullVars, cliVars, pushVars>>

\* Something other than tgit removes one blob file from the store.
RemoveBlob(h) ==
    /\ rpc = "stored"
    /\ h \in DOMAIN objects
    /\ objects' = [k \in DOMAIN objects \ {h} |-> objects[k]]
    /\ rpc' = "modified"
    /\ UNCHANGED <<cont, man, rloc, writer, output, rres, stderr, filter>>
    /\ UNCHANGED <<collectVars, fanVars, headVars, scanVars, rerunVars, openVars, lockVars, fsVars, ingestVars, remoteVars, pullVars, cliVars, pushVars>>

TgitRestoreNext ==
    \/ Process
    \/ \E h \in DOMAIN objects : ModifyBlob(h)
    \/ \E h \in DOMAIN objects : RemoveBlob(h)
    \/ TgitRestoreWriteHeader
    \/ TgitRestoreCopy
    \/ TgitRestoreFlush

SpecTgitRestore == InitRoundTrip /\ [][TgitRestoreNext]_vars

\* C26: a restore that returned Ok had, for every tensor it kept, a blob
\* file for the tensor's hash in the store whose BLAKE3 is that hash; a
\* restore that has returned while a kept tensor's blob is missing has
\* failed with BlobNotFound.
C26_RestoreNeedsVerifiedBlobs ==
    LET kept == {name \in DOMAIN man : KeepName(filter, name)}
    IN /\ RestoredOk =>
             \A name \in kept :
                 /\ man[name].hash \in DOMAIN objects
                 /\ HashHex(objects[man[name].hash]) = man[name].hash
       /\ (rpc = "returned" /\ rres # "InvalidName"
             /\ \E name \in kept : man[name].hash \notin DOMAIN objects)
            => rres = "BlobNotFound"

(***************************************************************************)
(* restore of a manifest with names that are not safe.                     *)
(***************************************************************************)
\* Lists of names: all safe; one with "../x"; "/w"; "a/b"; "w" followed by
\* NUL; "a\b".
NameLists ==
    { TensorNames,
      << TensorNames[1], <<".", ".", "/", "x">>, TensorNames[3], TensorNames[4] >>,
      << <<"/", "w">>, TensorNames[2], TensorNames[3], TensorNames[4] >>,
      << TensorNames[1], TensorNames[2], <<"a", "/", "b">>, TensorNames[4] >>,
      << <<"w", NUL>>, TensorNames[2], TensorNames[3], TensorNames[4] >>,
      << TensorNames[1], <<"a", "\\", "b">>, TensorNames[3], TensorNames[4] >> }

InitNames ==
    /\ LockInit
    /\ NoResults
    /\ FanIdle
    /\ NoHeadAnswers
    /\ NoOtherManifests
    /\ NoRerun
    /\ OpenIdle
    /\ FsEmpty
    /\ IngestIdle
    /\ RemoteEmpty
    /\ PullIdle
    /\ CliIdle
    /\ PushIdle
    /\ cont \in {NamedFrom(c, names) : c \in NamedContainers, names \in NameLists}
    /\ man = <<>>
    /\ objects = <<>>
    /\ rpc = "process"
    /\ rloc = NoLocals
    /\ writer = NoFile
    /\ output = NoFile
    /\ rres = "none"
    /\ stderr = {}
    /\ filter \in {NoFilter,
                    [some |-> TRUE, value |-> <<"e", "n", "c">>],
                    [some |-> TRUE, value |-> <<"d", "e", "c">>]}

SpecNames == InitNames /\ [][RoundTripNext]_vars

\* A name with a path separator, "..", NUL or a leading '/'.
UnsafeName(name) ==
    \/ \E k \in 1..Len(name) : name[k] \in {"/", "\\", NUL}
    \/ \E k \in 1..(Len(name) - 1) : name[k] = "." /\ name[k + 1] = "."

\* C25: a restore of a manifest in which some name, kept by the filter or
\* not, has a path separator, "..", NUL or a leading '/' returns
\* InvalidName, and it has created no output file and read no blob.
C25_NamesValidatedFirst ==
    (rpc \in {"pass2", "returned"} /\ \E name \in DOMAIN man : UnsafeName(name)) =>
        /\ rpc = "returned"
        /\ rres = "InvalidName"
        /\ ~output.exists
        /\ ~writer.exists
        /\ rloc.blobs_read = {}

\* restore under the filter "enc" has failed with InvalidName for a manifest
\* whose only unsafe name, "a/b", the filter would not keep.
C25_Witness ==
    /\ rpc = "returned"
    /\ rres = "InvalidName"
    /\ filter = [some |-> TRUE, value |-> <<"e", "n", "c">>]
    /\ <<"a", "/", "b">> \in DOMAIN man
    /\ \E name \in DOMAIN man : KeepName(filter, name)
    /\ ~output.exists

\* The header entries restore placed anew: those whose hash no earlier
\* entry has.
NewlyPlaced(hdr) ==
    {i \in 1..Len(hdr) :
        \A j \in 1..(i - 1) : HeaderHashes(hdr)[j] # HeaderHashes(hdr)[i]}

\* C21: in a container restore has written, every newly placed tensor
\* starts at a multiple of 8 from the start of the data region, and the
\* bytes of the data region between the end of one newly placed tensor and
\* the start of the next are zeros.
C21_AlignedAndZeroPadded ==
    RestoredOk =>
        \A i \in NewlyPlaced(output.header) :
            /\ output.header[i].data_offsets[1] % 8 = 0
            /\ \A p \in NewlyPlaced(output.header) :
                  (/\ p < i
                   /\ \A q \in NewlyPlaced(output.header) : ~(p < q /\ q < i))
                  => \A k \in (output.header[p].data_offsets[2] + 1)
                                ..output.header[i].data_offsets[1] :
                        k <= Len(output.data) /\ output.data[k] = 0

\* The element sizes of the closed set of dtypes.
ClosedSetSize(dtype) ==
    CASE dtype = "F32" -> 4
      [] dtype = "F16" -> 2
      [] dtype = "BF16" -> 2
      [] dtype = "F64" -> 8
      [] dtype = "I64" -> 8
      [] dtype = "I32" -> 4
      [] dtype = "I16" -> 2
      [] dtype = "I8" -> 1
      [] dtype = "U8" -> 1
      [] dtype = "BOOL" -> 1

\* C22: the byte size restore gives a newly placed tensor in the header it
\* builds is the product of the shape and the dtype's element size, which
\* is F32=4, F16=2, BF16=2, F64=8, I64=8, I32=4, I16=2, I8=1, U8=1, BOOL=1.
C22_DtypeSizes ==
    writer.exists =>
        \A i \in NewlyPlaced(writer.header) :
            writer.header[i].data_offsets[2] - writer.header[i].data_offsets[1]
              = Product(writer.header[i].shape)
                  * ClosedSetSize(writer.header[i].dtype)

\* C33: in a container a successful restore has written, the data_offsets
\* of every header entry delimit, within the data region, exactly the bytes
\* of the stored blob that has the entry's hash.
C33_OffsetsDelimitBlobs ==
    RestoredOk =>
        \A i \in 1..Len(output.header) :
            /\ output.header[i].data_offsets[2] <= Len(output.data)
            /\ DataSlice(output, output.header[i])
                 = objects[man[output.header[i].name].hash]

(***************************************************************************)
(* The pull command (tgit_cli/src/main.rs) around RemoteClient::pull.      *)
(***************************************************************************)
\* A command that takes any return of pull for a manifest.
PullReturnedAnything(pc) == pc \in {"ok", "err"}

\* match client.pull(name).await { Ok(manifest) => ...
PullReturnedOk(pc) == pc = "ok"

\* Ok(manifest): File::create(&path)? and write_all of the manifest's JSON
PullCmdWriteManifest ==
    /\ PullReturnedOk(ppc)
    /\ mfile' = [mfile EXCEPT ![1] =
                   [present |-> TRUE, hashes |-> {pman[t] : t \in Tensors}]]
    /\ ppc' = "updated"
    /\ UNCHANGED <<pman, ptpc, ptfd, ptoff, ptbytes>>
    /\ UNCHANGED <<apc, adir, gpc, gdir, gref, gtodo, gbefore>>
    /\ UNCHANGED <<collectVars, fanVars, headVars, scanVars, rerunVars, openVars, restoreVars, lockVars, fsVars, ingestVars, remoteVars, pushVars>>

\* Err(e) => eprintln!("Failed to pull ...")
PullCmdReportError ==
    /\ ppc = "err"
    /\ ppc' = "reported"
    /\ UNCHANGED <<pman, ptpc, ptfd, ptoff, ptbytes>>
    /\ UNCHANGED <<collectVars, fanVars, headVars, scanVars, rerunVars, openVars, restoreVars, lockVars, fsVars, ingestVars, remoteVars, pushVars, cliVars>>

PullCmdNext ==
    \/ PullNext
    \/ PullCmdWriteManifest
    \/ PullCmdReportError

\* The command pulls a manifest whose file is in the working directory; the
\* file holds what an earlier add or pull wrote.
InitPullCmd ==
    /\ LockInit
    /\ NoResults
    /\ FanIdle
    /\ NoHeadAnswers
    /\ NoOtherManifests
    /\ NoRerun
    /\ OpenIdle
    /\ IngestIdle
    /\ \E present \in SUBSET Hashes :
         /\ Cardinality(present) < NumHashes
         /\ StoreOfBlobs(present)
    /\ rman \in RemoteManifests(Versions)
    /\ rblob \in [Hashes -> {<<>>, Garbage} \cup {Payload(h) : h \in Hashes}]
    /\ \A h \in Hashes : rblob[h] \in {<<>>, Garbage, Payload(h)}
    /\ PullInit
    /\ \E local \in (SUBSET Hashes) \ {{}} :
         mfile = [d \in Dirs |->
                    IF d = 1 THEN [present |-> TRUE, hashes |-> local]
                    ELSE NoManifestFile]
    /\ apc = "idle"
    /\ adir = 1
    /\ gpc = "idle"
    /\ gdir = 1
    /\ gref = {}
    /\ gtodo = {}
    /\ gbefore = {}
    /\ PushIdle
    /\ RestoreIdle

SpecPullCmd == InitPullCmd /\ [][PullCmdNext]_vars

\* C13: the pull command changes the local manifest file only in a step
\* taken after pull returned Ok, every blob task having succeeded; when the
\* manifest fetch or a blob download fails the file stays as it was.
C13_ManifestOnlyAfterBlobs ==
    [][mfile' # mfile =>
         /\ ppc = "ok"
         /\ \A t \in Tensors : ptpc[t] \in {"skipped", "downloaded"}]_vars

\* The command has overwritten a manifest file after downloading a blob.
C13_Witness ==
    /\ ppc = "updated"
    /\ \E t \in Tensors : ptpc[t] = "downloaded"
    /\ mfile[1].hashes = {pman[t] : t \in Tensors}

(***************************************************************************)
(* Push as the tgit command runs it: RemoteClient::push of                 *)
(* tgit_core/src/remote.rs, one tensor after the other.                    *)
(***************************************************************************)
TgitPushInit ==
    /\ upc = "blobs"
    /\ umani \in [Tensors -> Hashes]
    /\ utpc = [t \in Tensors |-> "head"]
    /\ utfd = [t \in Tensors |-> 0]

TgitPushFinished(t) == utpc[t] \in {"skipped", "uploaded", "warned"}

\* The tensor the for loop is at.
TgitPushCurrent(t) ==
    /\ ~TgitPushFinished(t)
    /\ \A u \in Tensors : u < t => TgitPushFinished(u)

\* head_object: 200 skips; otherwise blob_path.exists() decides between the
\* upload and the warning "Blob not found locally".
TgitPushHeadBlob(t) ==
    /\ upc = "blobs"
    /\ TgitPushCurrent(t)
    /\ utpc[t] = "head"
    /\ \E answered200 \in BOOLEAN :
         /\ answered200 => rblob[umani[t]] # <<>>
         /\ uhead' = [uhead EXCEPT ![t] = HeadAnswer(answered200)]
         /\ utpc' = [utpc EXCEPT ![t] =
                IF answered200 THEN "skipped"
                ELSE IF Exists(Blob(umani[t])) THEN "upload" ELSE "warned"]
    /\ UNCHANGED <<upc, umani, utfd>>
    /\ UNCHANGED <<collectVars, fanVars, scanVars, rerunVars, openVars, restoreVars, lockVars, fsVars, ingestVars, remoteVars, pullVars, cliVars>>

\* File::open, read_to_end and put_object, each followed by `?`
TgitPushUploadBlob(t) ==
    /\ upc = "blobs"
    /\ TgitPushCurrent(t)
    /\ utpc[t] = "upload"
    /\ \E ok \in BOOLEAN :
         IF ok /\ Exists(Blob(umani[t]))
         THEN /\ rblob' = [rblob EXCEPT ![umani[t]] = ino[dir[Blob(umani[t])]]]
              /\ utpc' = [utpc EXCEPT ![t] = "uploaded"]
              /\ UNCHANGED upc
         ELSE /\ utpc' = [utpc EXCEPT ![t] = "error"]
              /\ upc' = "err"
              /\ UNCHANGED rblob
    /\ UNCHANGED <<umani, utfd, rman>>
    /\ UNCHANGED <<collectVars, fanVars, headVars, scanVars, rerunVars, openVars, restoreVars, lockVars, fsVars, ingestVars, pullVars, cliVars>>

\* put_object on manifests/<name>, after the loop
TgitPushPutManifest ==
    /\ upc = "blobs"
    /\ \A t \in Tensors : TgitPushFinished(t)
    /\ \E ok \in BOOLEAN :
         IF ok
         THEN /\ rman' = [present |-> TRUE, tensors |-> umani,
                          version |-> CURRENT_VERSION]
              /\ upc' = "ok"
         ELSE /\ upc' = "err"
              /\ UNCHANGED rman
    /\ UNCHANGED <<umani, utpc, utfd, rblob>>
    /\ UNCHANGED <<collectVars, fanVars, headVars, scanVars, rerunVars, openVars, restoreVars, lockVars, fsVars, ingestVars, pullVars, cliVars>>

TgitPushNext ==
    \/ \E t \in Tensors : TgitPushHeadBlob(t)
    \/ \E t \in Tensors : TgitPushUploadBlob(t)
    \/ TgitPushPutManifest

InitTgitPush ==
    /\ LockInit
    /\ NoResults
    /\ FanIdle
    /\ NoHeadAnswers
    /\ NoOtherManifests
    /\ NoRerun
    /\ OpenIdle
    /\ IngestIdle
    /\ \E present \in SUBSET Hashes : StoreOfBlobs(present)
    /\ rman \in RemoteManifests({CURRENT_VERSION})
    /\ rblob \in [Hashes -> {<<>>} \cup {Payload(h) : h \in Hashes}]
    /\ \A h \in Hashes : rblob[h] \in {<<>>, Payload(h)}
    /\ PullIdle
    /\ CliIdle
    /\ TgitPushInit
    /\ RestoreIdle

SpecTgitPush == InitTgitPush /\ [][TgitPushNext]_vars

\* A hash with no blob in the bucket and none in the local store.
MissingEverywhere(h) == rblob[h] = <<>> /\ ~Exists(Blob(h))

\* C14: when a hash of the manifest has no blob on the remote and none in
\* the local store, that hash's blob task ends with BlobNotFound and push
\* does not upload the manifest.
C14_MissingBlobFailsPush ==
    \A t \in Tensors : MissingEverywhere(umani[t]) =>
        /\ utpc[t] \in {"idle", "head", "BlobNotFound"}
        /\ upc \notin {"put_manifest", "ok"}

(***************************************************************************)
(* Manifest versions.                                                      *)
(***************************************************************************)
\* VektManifest::validate_and_migrate: the result for a manifest's version.
validate_and_migrate(version) ==
    IF version = "1.0" THEN "ok" ELSE "InvalidManifest"

\* C15: a manifest fetched by pull whose version validate_and_migrate
\* rejects makes pull fail without starting a blob task and without
\* returning a manifest.
C15_PullChecksVersion ==
    (ppc # "start" /\ rman.present /\ validate_and_migrate(rman.version) # "ok")
        => /\ ppc = "err"
           /\ \A t \in Tensors : ptpc[t] = "idle"

(***************************************************************************)
(* SafetensorFile::open (tgit_core/src/lib.rs).                            *)
(***************************************************************************)
\* The files open may be given: of any size, the first 8 bytes (when there
\* are 8) declaring the header length L, the header bytes valid UTF-8 or
\* not, and their text JSON of a RawHeader or not.
ContainerFiles ==
    [present : BOOLEAN, len : 0..MaxFileLen, L : 0..MaxHeaderLen,
     utf8 : BOOLEAN, json : BOOLEAN]

OpenInit ==
    /\ ofile \in ContainerFiles
    /\ opc = "open"
    /\ ores = "none"

\* let file = File::open(path)?;
OpenFile ==
    /\ opc = "open"
    /\ IF ofile.present
         THEN opc' = "map" /\ ores' = ores
         ELSE opc' = "done" /\ ores' = "Io"
    /\ UNCHANGED ofile
    /\ UNCHANGED <<collectVars, fanVars, headVars, scanVars, rerunVars, lockVars, fsVars, ingestVars, remoteVars, pullVars, cliVars, pushVars, restoreVars>>

\* let mmap = unsafe { Mmap::map(&file)? };
OpenMmap ==
    \E ok \in BOOLEAN :
        /\ opc = "map"
        /\ IF ok
             THEN opc' = "header_len" /\ ores' = ores
             ELSE opc' = "done" /\ ores' = "Io"
        /\ UNCHANGED ofile
        /\ UNCHANGED <<collectVars, fanVars, headVars, scanVars, rerunVars, lockVars, fsVars, ingestVars, remoteVars, pullVars, cliVars, pushVars, restoreVars>>

\* &mmap[0..8]: the index panics when the file has fewer than 8 bytes
OpenHeaderLen ==
    /\ opc = "header_len"
    /\ IF 8 <= ofile.len
         THEN opc' = "header_bytes" /\ ores' = ores
         ELSE opc' = "done" /\ ores' = "panic"
    /\ UNCHANGED ofile
    /\ UNCHANGED <<collectVars, fanVars, headVars, scanVars, rerunVars, lockVars, fsVars, ingestVars, remoteVars, pullVars, cliVars, pushVars, restoreVars>>

\* &mmap[8..8 + header_len]: the index panics when the range ends past the
\* end of the file
OpenHeaderBytes ==
    /\ opc = "header_bytes"
    /\ IF 8 + ofile.L <= ofile.len
         THEN opc' = "from_utf8" /\ ores' = ores
         ELSE opc' = "done" /\ ores' = "panic"
    /\ UNCHANGED ofile
    /\ UNCHANGED <<collectVars, fanVars, headVars, scanVars, rerunVars, lockVars, fsVars, ingestVars, remoteVars, pullVars, cliVars, pushVars, restoreVars>>

\* std::str::from_utf8(header_json_bytes).unwrap()
OpenFromUtf8 ==
    /\ opc = "from_utf8"
    /\ IF ofile.utf8
         THEN opc' = "from_str" /\ ores' = ores
         ELSE opc' = "done" /\ ores' = "panic"
    /\ UNCHANGED ofile
    /\ UNCHANGED <<collectVars, fanVars, headVars, scanVars, rerunVars, lockVars, fsVars, ingestVars, remoteVars, pullVars, cliVars, pushVars, restoreVars>>

\* serde_json::from_str(header_json_str).unwrap()
OpenFromStr ==
    /\ opc = "from_str"
    /\ IF ofile.json
         THEN opc' = "new" /\ ores' = ores
         ELSE opc' = "done" /\ ores' = "panic"
    /\ UNCHANGED ofile
    /\ UNCHANGED <<collectVars, fanVars, headVars, scanVars, rerunVars, lockVars, fsVars, ingestVars, remoteVars, pullVars, cliVars, pushVars, restoreVars>>

\* Ok(SafetensorFile::new(mmap, header, header_len))
OpenReturn ==
    /\ opc = "new"
    /\ opc' = "done"
    /\ ores' = "Ok"
    /\ UNCHANGED ofile
    /\ UNCHANGED <<collectVars, fanVars, headVars, scanVars, rerunVars, lockVars, fsVars, ingestVars, remoteVars, pullVars, cliVars, pushVars, restoreVars>>

OpenNext ==
    \/ OpenFile
    \/ OpenMmap
    \/ OpenHeaderLen
    \/ OpenHeaderBytes
    \/ OpenFromUtf8
    \/ OpenFromStr
    \/ OpenReturn

InitOpen ==
    /\ LockInit
    /\ NoResults
    /\ FanIdle
    /\ NoHeadAnswers
    /\ NoOtherManifests
    /\ NoRerun
    /\ OpenInit
    /\ FsEmpty
    /\ IngestIdle
    /\ RemoteEmpty
    /\ PullIdle
    /\ CliIdle
    /\ PushIdle
    /\ RestoreIdle

SpecOpen == InitOpen /\ [][OpenNext]_vars

\* The file was opened and mapped and has its 8 length bytes, and its
\* declared header length exceeds what the file holds, or its header bytes
\* are not UTF-8, or their text does not parse.
HeaderUnreadable ==
    /\ opc = "done"
    /\ ores # "Io"
    /\ 8 <= ofile.len
    /\ \/ 8 + ofile.L > ofile.len
       \/ ~ofile.utf8
       \/ ~ofile.json

\* C23: open of a file whose declared header length exceeds the file size,
\* whose header is not valid UTF-8 or whose header JSON does not parse
\* returns the error value CorruptHeader.
C23_OpenReturnsCorruptHeader ==
    HeaderUnreadable => ores = "CorruptHeader"

(***************************************************************************)
(* The bounded fan-out of push and pull (vekt_core/src/remote.rs): the     *)
(* blob tasks are a stream over manifest.tensors, buffer_unordered(10)     *)
(* keeps at most ten of them in progress, and collect() waits for the      *)
(* stream to end before the results are looked at.  The tasks are counted  *)
(* here rather than run: what each of them does is in the push and pull    *)
(* sections above.                                                         *)
(***************************************************************************)
MaxTasks == 12
FAN_OUT == 10
FanOps == {"push", "pull"}

InFlight == {i \in DOMAIN ftasks : ftasks[i] = "inflight"}
Queued == {i \in DOMAIN ftasks : ftasks[i] = "queued"}

\* A buffer that takes every future the stream yields.
Unbounded(in_progress) == TRUE

\* in_progress_queue.len() < max, the test buffer_unordered makes before it
\* takes the next future from the stream.
HasRoom(in_progress) == in_progress < FAN_OUT

FanInit ==
    /\ fop \in FanOps
    /\ fn \in 0..MaxTasks
    /\ ftasks = <<>>
    /\ ffailed = FALSE
    /\ fpc = "manifest"

\* push: head_object on manifests/<name>, whose answer only warns.
\* pull: get_object on manifests/<name> and from_slice, each of which can
\* fail before any task exists.
FanManifest ==
    /\ fpc = "manifest"
    /\ \E ok \in BOOLEAN :
         IF ok \/ fop = "push"
         THEN /\ ftasks' = [i \in 1..fn |-> "queued"]
              /\ fpc' = "tasks"
         ELSE /\ fpc' = "err"
              /\ UNCHANGED ftasks
    /\ UNCHANGED <<fop, fn, ffailed>>
    /\ UNCHANGED <<collectVars, headVars, scanVars, rerunVars, openVars, restoreVars, lockVars, fsVars, ingestVars, remoteVars, pullVars, cliVars, pushVars>>

\* buffer_unordered takes the next future of the stream, in the order of
\* stream::iter, while it has room.
FanDispatch ==
    /\ fpc = "tasks"
    /\ Queued # {}
    /\ HasRoom(Cardinality(InFlight))
    /\ LET i == CHOOSE j \in Queued : \A k \in Queued : j <= k
       IN ftasks' = [ftasks EXCEPT ![i] = "inflight"]
    /\ UNCHANGED <<fop, fn, ffailed, fpc>>
    /\ UNCHANGED <<collectVars, headVars, scanVars, rerunVars, openVars, restoreVars, lockVars, fsVars, ingestVars, remoteVars, pullVars, cliVars, pushVars>>

\* A task in progress returns, Ok or Err; its result joins the collected ones.
FanFinish(i) ==
    /\ fpc = "tasks"
    /\ i \in InFlight
    /\ ftasks' = [ftasks EXCEPT ![i] = "done"]
    /\ \E ok \in BOOLEAN : ffailed' = (ffailed \/ ~ok)
    /\ UNCHANGED <<fop, fn, fpc>>
    /\ UNCHANGED <<collectVars, headVars, scanVars, rerunVars, openVars, restoreVars, lockVars, fsVars, ingestVars, remoteVars, pullVars, cliVars, pushVars>>

\* tasks.collect().await returns when the stream has ended and nothing is in
\* progress; `res?` over the results then returns the first Err.  After it
\* push goes on to the manifest put and pull returns the manifest.
FanCollect ==
    /\ fpc = "tasks"
    /\ Queued = {}
    /\ InFlight = {}
    /\ fpc' = IF ffailed THEN "err"
              ELSE IF fop = "push" THEN "put_manifest" ELSE "ok"
    /\ UNCHANGED <<fop, fn, ftasks, ffailed>>
    /\ UNCHANGED <<collectVars, headVars, scanVars, rerunVars, openVars, restoreVars, lockVars, fsVars, ingestVars, remoteVars, pullVars, cliVars, pushVars>>

\* push: put_object on manifests/<name>
FanPutManifest ==
    /\ fpc = "put_manifest"
    /\ \E ok \in BOOLEAN : fpc' = IF ok THEN "ok" ELSE "err"
    /\ UNCHANGED <<fop, fn, ftasks, ffailed>>
    /\ UNCHANGED <<collectVars, headVars, scanVars, rerunVars, openVars, restoreVars, lockVars, fsVars, ingestVars, remoteVars, pullVars, cliVars, pushVars>>

\* The future of the operation is dropped at a suspension point; the tasks in
\* progress are dropped with it and the operation returns nothing.
FanCancel ==
    /\ fpc = "tasks"
    /\ fpc' = "cancelled"
    /\ UNCHANGED <<fop, fn, ftasks, ffailed>>
    /\ UNCHANGED <<collectVars, headVars, scanVars, rerunVars, openVars, restoreVars, lockVars, fsVars, ingestVars, remoteVars, pullVars, cliVars, pushVars>>

FanNext ==
    \/ FanManifest
    \/ FanDispatch
    \/ \E i \in 1..MaxTasks : FanFinish(i)
    \/ FanCollect
    \/ FanPutManifest
    \/ FanCancel

InitFanOut ==
    /\ LockInit
    /\ NoResults
    /\ NoHeadAnswers
    /\ NoOtherManifests
    /\ NoRerun
    /\ OpenIdle
    /\ FsEmpty
    /\ IngestIdle
    /\ RemoteEmpty
    /\ PullIdle
    /\ CliIdle
    /\ PushIdle
    /\ RestoreIdle
    /\ FanInit

SpecFanOut == InitFanOut /\ [][FanNext]_vars

\* C30: during a push or a pull never more than ten blob tasks are in
\* flight, and when the operation has returned, Ok or Err, every task of the
\* manifest has been started and has run to its end.
C30_BoundedFanOut ==
    /\ Cardinality({i \in DOMAIN ftasks : ftasks[i] = "inflight"}) <= 10
    /\ fpc \in {"put_manifest", "ok", "err"} =>
         \A i \in DOMAIN ftasks : ftasks[i] = "done"

\* The buffer is full, ten tasks in flight, while tasks still wait in the
\* stream.
C30_Witness ==
    /\ Cardinality({i \in DOMAIN ftasks : ftasks[i] = "inflight"}) = 10
    /\ \E i \in DOMAIN ftasks : ftasks[i] = "queued"

====
